---- MODULE Spec2Model ----
(***************************************************************************)
(* A model of the community-chats audio mesh: presence over the Gun graph  *)
(* (DecentralizedSignalingService), the per-peer negotiation of            *)
(* WebRTCService, and the Meeting page's session glue (roster, mixer,      *)
(* cleanup).  The Gun graph is the shared store between the participants.  *)
(*                                                                         *)
(* Time is kept as ages: a presence record is known by how many heartbeat  *)
(* periods ago its lastSeen was taken, which is all the program computes   *)
(* from it (Date.now() - lastSeen).  The timestamp of a signaling record   *)
(* is kept as the number of the put at its key: successive puts at one key *)
(* by one writer are at least one promise apart and carry increasing       *)
(* Date.now() values.                                                      *)
(***************************************************************************)
EXTENDS Integers, Sequences, FiniteSets, TLC

\* ------------------------------------------------------------------ bounds
\* Participant ids (wallet addresses in the program).
Ids == {"A", "B", "C"}

\* RTCPeerConnection objects one participant may construct.
MaxPC == 2

\* ICE candidates one participant sends to one peer.
MaxCand == 1

\* Offers a summarised participant sends to one peer.
MaxOffers == 1

\* Highest value a counter of callbacks or of messages counts to.
MaxCount == 2

\* ------------------------------------------------------- program constants
\* A presence record is active while Date.now() - lastSeen < 30000 ms, that
\* is, less than three heartbeat periods of 10000 ms.
ActiveWindow == 3

\* ------------------------------------------------------------------- state
VARIABLES
  phase,             \* session of p: "idle", "joined", "left", "crashed"; "remote"
                     \* and "gone" for a participant that is only summarised
  presence,          \* Gun, participants/<x>: the age of the record x put last;
                     \* -1 when it put null (on leaving), -2 when it put nothing
  held,              \* Gun: the age of the record p's replica holds for x;
                     \* -1 when it holds null, -2 when it holds nothing
  seenParticipants,  \* listenForParticipants' seen set of p
  heartbeatInterval, \* whether p's heartbeat timer is running
  handlersSet,       \* whether setupSignalingHandlers has registered p's callbacks
  signalingService,  \* whether p's WebRTCService still holds its signaling service
  offers,            \* Gun: signaling/<to>/offers/<from>
  answers,           \* Gun: signaling/<to>/answers/<from>
  ice,               \* Gun: signaling/<to>/ice/<candidateId>
  processedOffers,   \* listenForSignaling's dedup sets of p
  processedAnswers,
  processedCandidates,
  peerConnections,   \* WebRTCService.peerConnections of p: remote id -> PC number, 0 if absent
  pcs,               \* every RTCPeerConnection p has constructed, by number
  tasks,             \* promises of RTCPeerConnection operations not yet settled
  participants,      \* the store's participant list of p (addresses)
  closureParticipants, \* the list the Meeting callbacks of p captured
  mixerSources,      \* ParticipantAudioMixer.participantSources of p (ids)
  localCapture,      \* whether p's captured microphone stream is live
  cleanupLog,        \* the steps Meeting.cleanup of p ran, in order
  rosterEvent,       \* the last of p's participant-joined/-left callbacks run for x:
                     \* "none", "joined", "left"; "bad" once two of a kind ran in a
                     \* row or a left ran first
  offerCalls,        \* times p's onOffer callback ran, per (from, timestamp)
  answerCalls,       \* times p's onAnswer callback ran, per (from, timestamp)
  offersSent,        \* offers written by sendOffer, per (from, to)
  uncaught,          \* whether a promise of p has rejected with nobody catching it
  toast,             \* the last toast the Meeting page of p showed for its audio:
                     \* "none", "success", "error"
  audio,             \* one ParticipantAudioMixer and one AudioService: their
                     \* fields, the nodes and contexts they have made, and what
                     \* is remembered of the calls made on them
  chain,             \* the two contracts, CommunityAccess and MeetingScheduler:
                     \* their storage, and the last transaction sent to them
  ls                 \* one LocalStorageSignalingService, and the keys of
                     \* localStorage it reads and the others write

vars == <<phase, presence, held, seenParticipants, heartbeatInterval,
          handlersSet, signalingService, offers, answers, ice, processedOffers,
          processedAnswers, processedCandidates, peerConnections, pcs, tasks,
          participants, closureParticipants, mixerSources, localCapture,
          cleanupLog, rosterEvent, offerCalls, answerCalls, offersSent,
          uncaught, toast, audio, chain, ls>>

\* ------------------------------------------------------------ descriptions
\* A session description is named by who created it and the number of the
\* connection (or, for a summarised participant, of the put) it comes from;
\* an answer also names the offer it answers.
NoPC == <<"", 0>>

NoSdp == [type |-> "none", by |-> NoPC, re |-> NoPC]

OfferOf(p, n) == [type |-> "offer", by |-> <<p, n>>, re |-> NoPC]

AnswerOf(p, n, offer) == [type |-> "answer", by |-> <<p, n>>, re |-> offer.by]

\* A slot of the signaling graph that nothing was put into.
NoMsg == [timestamp |-> 0, sdp |-> NoSdp]

\* new RTCPeerConnection(...), with the offerer flag createPeerConnection got.
NewPC(x, shouldCreateOffer) ==
  [remote |-> x, initiator |-> shouldCreateOffer, signalingState |-> "stable",
   localDescription |-> NoSdp, remoteDescription |-> NoSdp,
   connectionState |-> "new", applied |-> <<>>, arrived |-> <<>>]

\* pc.close(): the object stays, closed for good; what it held is gone.
ClosedPC(pc) ==
  [NewPC(pc.remote, FALSE) EXCEPT !.signalingState = "closed",
                                  !.connectionState = "closed"]

IsOpen(pc) == pc.signalingState # "closed"

\* Lexicographic order of the ids.
Rank(id) == CASE id = "A" -> 1 [] id = "B" -> 2 [] OTHER -> 3

\* The liveness test without the recency threshold: any record that has a
\* lastSeen counts as active.
IsActiveAlways(age) == TRUE

\* data.lastSeen && (Date.now() - data.lastSeen < 30000), on a record's age.
IsActive(age) == age < ActiveWindow

\* The Gun subscriptions of p are never removed: they outlive cleanup.
Subscribed(p) == phase[p] \in {"joined", "left"}

\* The participants whose page, or whose summary, is alive.
Running(p) == phase[p] \in {"joined", "left", "remote"}

\* The counters of callbacks and messages stop counting at MaxCount.
Bump(n) == IF n < MaxCount THEN n + 1 ELSE n

\* ----------------------------------------------------------- WebRTCService
\* removePeerConnection taken for a reset of the service: every connection
\* of the map is closed and the map emptied.
removeEveryPeerConnection(p, x) ==
  [map  |-> [y \in Ids |-> 0],
   list |-> [n \in DOMAIN pcs[p] |->
               IF \E y \in Ids : peerConnections[p][y] = n
               THEN ClosedPC(pcs[p][n]) ELSE pcs[p][n]]]

\* removePeerConnection without the close(): the entry is deleted, the
\* connection left as it is.
removePeerConnectionUnclosed(p, x) ==
  [map |-> [peerConnections[p] EXCEPT ![x] = 0], list |-> pcs[p]]

\* removePeerConnection: close the connection the map holds for x, and
\* delete the entry.
removePeerConnection(p, x) ==
  LET n == peerConnections[p][x] IN
  IF n = 0
  THEN [map |-> peerConnections[p], list |-> pcs[p]]
  ELSE [map  |-> [peerConnections[p] EXCEPT ![x] = 0],
        list |-> [pcs[p] EXCEPT ![n] = ClosedPC(@)]]

\* createPeerConnection without its look-up of the map: a new connection
\* whatever the map holds.
createPeerConnectionAnew(p, x, shouldCreateOffer) ==
  LET n == Len(pcs[p]) + 1 IN
  [map  |-> [peerConnections[p] EXCEPT ![x] = n],
   list |-> Append(pcs[p], NewPC(x, shouldCreateOffer)),
   n    |-> n,
   started |-> IF shouldCreateOffer
               THEN {[p |-> p, n |-> n, op |-> "createOffer", sdp |-> NoSdp]}
               ELSE {}]

\* createPeerConnection with a cache of the connections made: a connection
\* made earlier for x is put back in the map.
createPeerConnectionReusing(p, x, shouldCreateOffer) ==
  LET old == {n \in DOMAIN pcs[p] : pcs[p][n].remote = x}
      n == IF peerConnections[p][x] # 0 THEN peerConnections[p][x]
           ELSE IF old # {} THEN CHOOSE k \in old : \A j \in old : j <= k
           ELSE Len(pcs[p]) + 1 IN
  [map  |-> [peerConnections[p] EXCEPT ![x] = n],
   list |-> IF n > Len(pcs[p])
            THEN Append(pcs[p], NewPC(x, shouldCreateOffer)) ELSE pcs[p],
   n    |-> n,
   started |-> IF shouldCreateOffer /\ peerConnections[p][x] = 0
               THEN {[p |-> p, n |-> n, op |-> "createOffer", sdp |-> NoSdp]}
               ELSE {}]

\* createPeerConnection: the connection the map holds for x if there is one;
\* else a new one, entered in the map, and with shouldCreateOffer the
\* createOffer promise started.
createPeerConnection(p, x, shouldCreateOffer) ==
  IF peerConnections[p][x] # 0
  THEN [map |-> peerConnections[p], list |-> pcs[p],
        n |-> peerConnections[p][x], started |-> {}]
  ELSE LET n == Len(pcs[p]) + 1 IN
       [map  |-> [peerConnections[p] EXCEPT ![x] = n],
        list |-> Append(pcs[p], NewPC(x, shouldCreateOffer)),
        n    |-> n,
        started |-> IF shouldCreateOffer
                    THEN {[p |-> p, n |-> n, op |-> "createOffer", sdp |-> NoSdp]}
                    ELSE {}]

\* The model constructs at most MaxPC connections per participant.
CanCreate(p, x) == peerConnections[p][x] # 0 \/ Len(pcs[p]) < MaxPC

\* sendOffer: put {offer, timestamp: Date.now()} at signaling/<x>/offers/<p>.
sendOffer(p, x, sdp) ==
  /\ offers' = [offers EXCEPT ![x][p] =
                  [timestamp |-> @.timestamp + 1, sdp |-> sdp]]
  /\ offersSent' = [offersSent EXCEPT ![p][x] = Bump(@)]

\* sendAnswer: put {answer, timestamp: Date.now()} at signaling/<x>/answers/<p>.
sendAnswer(p, x, sdp) ==
  answers' = [answers EXCEPT ![x][p] =
                [timestamp |-> @.timestamp + 1, sdp |-> sdp]]

\* The Meeting page's participant-joined callback: the store adds the
\* address unless it is listed already.
SessionParticipantJoined(p, x) ==
  participants' = [participants EXCEPT ![p] =
                     IF x = p \/ x \in closureParticipants[p] THEN @ ELSE @ \cup {x}]

\* The Meeting page's participant-left callback: it looks the id up in the
\* list its closure captured and removes it from the store only when found.
SessionParticipantLeft(p, x) ==
  participants' = [participants EXCEPT ![p] =
                     IF x \in closureParticipants[p] THEN @ \ {x} ELSE @]

\* WebRTCService's onParticipantJoined handler.
OnParticipantJoined(p, x) ==
  LET r == createPeerConnection(p, x, TRUE) IN
  /\ CanCreate(p, x)
  /\ peerConnections' = [peerConnections EXCEPT ![p] = r.map]
  /\ pcs' = [pcs EXCEPT ![p] = r.list]
  /\ tasks' = tasks \cup r.started
  /\ rosterEvent' = [rosterEvent EXCEPT ![p][x] =
                       IF @ \in {"joined", "bad"} THEN "bad" ELSE "joined"]
  /\ SessionParticipantJoined(p, x)

\* WebRTCService's onParticipantLeft handler.
OnParticipantLeft(p, x) ==
  LET r == removePeerConnection(p, x) IN
  /\ peerConnections' = [peerConnections EXCEPT ![p] = r.map]
  /\ pcs' = [pcs EXCEPT ![p] = r.list]
  /\ rosterEvent' = [rosterEvent EXCEPT ![p][x] =
                       IF @ = "joined" THEN "left" ELSE "bad"]
  /\ SessionParticipantLeft(p, x)
  /\ UNCHANGED tasks

\* ------------------------------------------- DecentralizedSignalingService
\* The join branch as it was before the seen set: any active record, and a
\* callback to tell.
IsNewParticipantAlways(p, x) == handlersSet[p]

\* The join branch of listenForParticipants: a new participant, and a
\* callback to tell.
IsNewParticipant(p, x) == x \notin seenParticipants[p] /\ handlersSet[p]

\* The leave branch of listenForParticipants.
BecameInactive(p, x) == x \in seenParticipants[p]

PresenceUntouched ==
  UNCHANGED <<seenParticipants, peerConnections, pcs, tasks, participants,
              rosterEvent>>

\* The callback without its test for the subscriber's own key.
listenForParticipantsUnfiltered(p, x, data) ==
  IF data = -1
  THEN PresenceUntouched
  ELSE IF IsActive(data)
       THEN IF IsNewParticipant(p, x)
            THEN /\ seenParticipants' = [seenParticipants EXCEPT ![p] = @ \cup {x}]
                 /\ OnParticipantJoined(p, x)
            ELSE PresenceUntouched
       ELSE IF BecameInactive(p, x)
            THEN /\ seenParticipants' = [seenParticipants EXCEPT ![p] = @ \ {x}]
                 /\ IF handlersSet[p]
                    THEN OnParticipantLeft(p, x)
                    ELSE UNCHANGED <<peerConnections, pcs, tasks, participants,
                                     rosterEvent>>
            ELSE PresenceUntouched

\* The callback of participants.map().on(): data is the age of the record
\* delivered (-1 for null), x the key it was put under.
listenForParticipants(p, x, data) ==
  IF data = -1 \/ x = p
  THEN PresenceUntouched
  ELSE IF IsActive(data)
       THEN IF IsNewParticipant(p, x)
            THEN /\ seenParticipants' = [seenParticipants EXCEPT ![p] = @ \cup {x}]
                 /\ OnParticipantJoined(p, x)
            ELSE PresenceUntouched
       ELSE IF BecameInactive(p, x)
            THEN /\ seenParticipants' = [seenParticipants EXCEPT ![p] = @ \ {x}]
                 /\ IF handlersSet[p]
                    THEN OnParticipantLeft(p, x)
                    ELSE UNCHANGED <<peerConnections, pcs, tasks, participants,
                                     rosterEvent>>
            ELSE PresenceUntouched

\* The offer listener without its dedup set: any record, and a callback.
OfferIsNewAlways(p, key) == handlersSet[p]

\* The dedup test of the offer listener: the key is `${from}_${timestamp}`.
OfferIsNew(p, key) == key \notin processedOffers[p] /\ handlersSet[p]

\* The dedup test of the answer listener.
AnswerIsNew(p, key) == key \notin processedAnswers[p] /\ handlersSet[p]

\* The dedup test of the candidate listener: the key is the candidate id.
CandidateIsNew(p, id) == id \notin processedCandidates[p] /\ handlersSet[p]

\* A description as it is read from the graph: its type is "" when the
\* record has none, and its sdp text, named by the connection it comes
\* from, is NoPC when the record has none.
HasSdp(sdp) == sdp.by # NoPC

\* The handlers with no validation of what they are given.
IsValidDescriptionAlways(sdp) == TRUE

\* The validation of handleOffer and handleAnswer:
\* !(!offer || !offer.type || !offer.sdp).
IsValidDescription(sdp) == sdp # NoSdp /\ sdp.type # "" /\ HasSdp(sdp)

\* A candidate as it is read from the graph: <<>> when the record has no
\* candidate object, <<"">> when its candidate string is empty.
HasCandidate(candidate) == candidate # <<>> /\ candidate # <<"">>

\* handleOffer: an offer without a type or an sdp is logged and dropped;
\* else get or create the connection (no offer of our own), then start
\* setRemoteDescription(offer).
handleOffer(p, x, sdp) ==
  LET r == createPeerConnection(p, x, FALSE) IN
  IF IsValidDescription(sdp)
  THEN /\ CanCreate(p, x)
       /\ peerConnections' = [peerConnections EXCEPT ![p] = r.map]
       /\ pcs' = [pcs EXCEPT ![p] = r.list]
       /\ tasks' = tasks \cup r.started
                     \cup {[p |-> p, n |-> r.n, op |-> "setRemoteOffer", sdp |-> sdp]}
  ELSE UNCHANGED <<peerConnections, pcs, tasks>>

\* handleAnswer: an answer without a type or an sdp is logged and dropped;
\* else start setRemoteDescription(answer) on the connection the map holds,
\* if any.
handleAnswer(p, x, sdp) ==
  /\ tasks' = IF IsValidDescription(sdp) /\ peerConnections[p][x] # 0
              THEN tasks \cup {[p |-> p, n |-> peerConnections[p][x],
                                op |-> "setRemoteAnswer", sdp |-> sdp]}
              ELSE tasks
  /\ UNCHANGED <<peerConnections, pcs>>

\* addIceCandidate on a connection: it needs a remote description, and the
\* rejection is caught and logged by handleIceCandidate.
addIceCandidate(pc, candidate) ==
  IF pc.remoteDescription # NoSdp
  THEN [pc EXCEPT !.applied = Append(@, candidate)]
  ELSE pc

\* handleIceCandidate: hand the candidate to the connection the map holds
\* for x, if any, unless the candidate is empty.  arrived records every
\* candidate that found a connection.
handleIceCandidate(p, x, candidate) ==
  LET n == peerConnections[p][x] IN
  /\ pcs' = IF n # 0 /\ HasCandidate(candidate)
            THEN [pcs EXCEPT ![p][n] =
                    [addIceCandidate(@, candidate) EXCEPT
                       !.arrived = Append(@, candidate)]]
            ELSE pcs
  /\ UNCHANGED <<peerConnections, tasks>>

\* ------------------------------------------------------ the Gun graph fires
\* Whether record a was put after the record (or the nothing) h.
Newer(a, h) ==
  \/ h = -2
  \/ h >= 0 /\ (a = -1 \/ a < h)

\* The record the replica of p holds for x's presence key; p's own puts
\* reach its replica at once.
Held(p, x) == IF x = p THEN presence[p] ELSE held[p][x]

\* participants.map().on() fires: the record x put last has reached the
\* replica of p.
DeliverPresence(p, x) ==
  /\ Subscribed(p)
  /\ x # p
  /\ presence[x] # -2
  /\ Newer(presence[x], held[p][x])
  /\ held' = [held EXCEPT ![p][x] = presence[x]]
  /\ listenForParticipants(p, x, presence[x])
  /\ UNCHANGED <<phase, presence, heartbeatInterval, handlersSet,
                 signalingService, offers, answers, ice, processedOffers,
                 processedAnswers, processedCandidates, closureParticipants,
                 mixerSources, localCapture, cleanupLog, offerCalls,
                 answerCalls, offersSent, uncaught>>
  /\ UNCHANGED <<audio, toast, chain, ls>>

\* participants.map().on() fires again with the record the replica holds.
ReplayPresence(p, x) ==
  /\ Subscribed(p)
  /\ Held(p, x) # -2
  /\ listenForParticipants(p, x, Held(p, x))
  /\ UNCHANGED <<phase, presence, held, heartbeatInterval, handlersSet,
                 signalingService, offers, answers, ice, processedOffers,
                 processedAnswers, processedCandidates, closureParticipants,
                 mixerSources, localCapture, cleanupLog, offerCalls,
                 answerCalls, offersSent, uncaught>>
  /\ UNCHANGED <<audio, toast, chain, ls>>

\* signaling/<p>/offers.map().on() fires with the record put by x; the
\* listener passes on a record that has an offer with an sdp.
DeliverOffer(p, x) ==
  LET m == offers[p][x]
      key == <<x, m.timestamp>> IN
  /\ Subscribed(p)
  /\ m # NoMsg
  /\ IF HasSdp(m.sdp) /\ OfferIsNew(p, key)
     THEN /\ processedOffers' = [processedOffers EXCEPT ![p] = @ \cup {key}]
          /\ offerCalls' = [offerCalls EXCEPT ![p][key] = Bump(@)]
          /\ handleOffer(p, x, m.sdp)
     ELSE UNCHANGED <<processedOffers, offerCalls, peerConnections, pcs, tasks>>
  /\ UNCHANGED <<phase, presence, held, seenParticipants,
                 heartbeatInterval, handlersSet, signalingService, offers,
                 answers, ice, processedAnswers, processedCandidates,
                 participants, closureParticipants, mixerSources, localCapture,
                 cleanupLog, rosterEvent,
                 answerCalls, offersSent, uncaught>>
  /\ UNCHANGED <<audio, toast, chain, ls>>

\* signaling/<p>/answers.map().on() fires with the record put by x; the
\* listener passes on a record that has an answer with an sdp.
DeliverAnswer(p, x) ==
  LET m == answers[p][x]
      key == <<x, m.timestamp>> IN
  /\ Subscribed(p)
  /\ m # NoMsg
  /\ IF HasSdp(m.sdp) /\ AnswerIsNew(p, key)
     THEN /\ processedAnswers' = [processedAnswers EXCEPT ![p] = @ \cup {key}]
          /\ answerCalls' = [answerCalls EXCEPT ![p][key] = Bump(@)]
          /\ handleAnswer(p, x, m.sdp)
     ELSE UNCHANGED <<processedAnswers, answerCalls, peerConnections, pcs, tasks>>
  /\ UNCHANGED <<phase, presence, held, seenParticipants,
                 heartbeatInterval, handlersSet, signalingService, offers,
                 answers, ice, processedOffers, processedCandidates,
                 participants, closureParticipants, mixerSources, localCapture,
                 cleanupLog, rosterEvent,
                 offerCalls, offersSent, uncaught>>
  /\ UNCHANGED <<audio, toast, chain, ls>>

\* signaling/<p>/ice.map().on() fires with one of the records stored; the
\* listener passes on a record whose candidate has a candidate string.
DeliverIce(p) ==
  /\ Subscribed(p)
  /\ \E m \in ice[p] :
       IF HasCandidate(m.candidate) /\ CandidateIsNew(p, m.id)
       THEN /\ processedCandidates' = [processedCandidates EXCEPT ![p] = @ \cup {m.id}]
            /\ handleIceCandidate(p, m.from, m.candidate)
       ELSE UNCHANGED <<processedCandidates, peerConnections, pcs, tasks>>
  /\ UNCHANGED <<phase, presence, held, seenParticipants,
                 heartbeatInterval, handlersSet, signalingService, offers,
                 answers, ice, processedOffers, processedAnswers,
                 participants, closureParticipants, mixerSources, localCapture,
                 cleanupLog, rosterEvent,
                 offerCalls, answerCalls, offersSent, uncaught>>
  /\ UNCHANGED <<audio, toast, chain, ls>>

\* --------------------------------------- RTCPeerConnection promises settle
TaskPC(t) == pcs[t.p][t.n]

Next1(t, op, sdp) == [p |-> t.p, n |-> t.n, op |-> op, sdp |-> sdp]

\* A rejected promise nobody catches: the handler stops there.
Reject(t) ==
  /\ tasks' = tasks \ {t}
  /\ uncaught' = [uncaught EXCEPT ![t.p] = TRUE]
  /\ UNCHANGED <<pcs, offers, offersSent, answers, mixerSources>>

\* ontrack -> the Meeting's remote-stream callback -> audioMixer.addParticipant.
onRemoteStream(p, x) ==
  mixerSources' = [mixerSources EXCEPT ![p] = @ \cup {x}]

SettleFrame ==
  /\ UNCHANGED <<phase, presence, held, seenParticipants, heartbeatInterval,
                 handlersSet, signalingService, ice, processedOffers,
                 processedAnswers, processedCandidates, peerConnections,
                 participants, closureParticipants, localCapture, cleanupLog,
                 rosterEvent, offerCalls, answerCalls>>
  /\ UNCHANGED <<audio, toast, chain, ls>>

\* createOffer() settles; createPeerConnection goes on to setLocalDescription.
SettleCreateOffer(t) ==
  /\ t \in tasks /\ t.op = "createOffer"
  /\ IF TaskPC(t).signalingState \in {"stable", "have-local-offer"}
     THEN /\ tasks' = (tasks \ {t}) \cup {Next1(t, "setLocalOffer", OfferOf(t.p, t.n))}
          /\ UNCHANGED <<pcs, offers, offersSent, answers, mixerSources, uncaught>>
     ELSE Reject(t)
  /\ SettleFrame

\* setLocalDescription(offer) settles; createPeerConnection sends the offer.
SettleSetLocalOffer(t) ==
  /\ t \in tasks /\ t.op = "setLocalOffer"
  /\ IF TaskPC(t).signalingState \in {"stable", "have-local-offer"}
     THEN /\ tasks' = tasks \ {t}
          /\ pcs' = [pcs EXCEPT ![t.p][t.n] =
                       [@ EXCEPT !.signalingState = "have-local-offer",
                                 !.localDescription = t.sdp]]
          /\ IF signalingService[t.p]
             THEN sendOffer(t.p, TaskPC(t).remote, t.sdp)
             ELSE UNCHANGED <<offers, offersSent>>
          /\ UNCHANGED <<answers, mixerSources, uncaught>>
     ELSE Reject(t)
  /\ SettleFrame

\* The remote offer is applied; handleOffer goes on to createAnswer.
ApplyRemoteOffer(t) ==
  /\ tasks' = (tasks \ {t}) \cup {Next1(t, "createAnswer", NoSdp)}
  /\ pcs' = [pcs EXCEPT ![t.p][t.n] =
               [@ EXCEPT !.signalingState = "have-remote-offer",
                         !.localDescription =
                            IF @.type = "offer" THEN NoSdp ELSE @,
                         !.remoteDescription = t.sdp]]
  /\ onRemoteStream(t.p, TaskPC(t).remote)
  /\ UNCHANGED <<offers, offersSent, answers, uncaught>>

\* setRemoteDescription(offer) settles.  With a local offer pending the
\* browser either rolls the local offer back or rejects.
SettleSetRemoteOffer(t) ==
  /\ t \in tasks /\ t.op = "setRemoteOffer"
  /\ CASE TaskPC(t).signalingState \in {"stable", "have-remote-offer"} ->
            ApplyRemoteOffer(t)
       [] TaskPC(t).signalingState = "have-local-offer" ->
            ApplyRemoteOffer(t) \/ Reject(t)
       [] OTHER -> Reject(t)
  /\ SettleFrame

\* createAnswer() settles; handleOffer goes on to setLocalDescription.
SettleCreateAnswer(t) ==
  /\ t \in tasks /\ t.op = "createAnswer"
  /\ IF TaskPC(t).signalingState = "have-remote-offer"
     THEN /\ tasks' = (tasks \ {t}) \cup
                        {Next1(t, "setLocalAnswer",
                               AnswerOf(t.p, t.n, TaskPC(t).remoteDescription))}
          /\ UNCHANGED <<pcs, offers, offersSent, answers, mixerSources, uncaught>>
     ELSE Reject(t)
  /\ SettleFrame

\* setLocalDescription(answer) settles; handleOffer sends the answer.
SettleSetLocalAnswer(t) ==
  /\ t \in tasks /\ t.op = "setLocalAnswer"
  /\ IF TaskPC(t).signalingState = "have-remote-offer"
     THEN /\ tasks' = tasks \ {t}
          /\ pcs' = [pcs EXCEPT ![t.p][t.n] =
                       [@ EXCEPT !.signalingState = "stable",
                                 !.localDescription = t.sdp]]
          /\ IF signalingService[t.p]
             THEN sendAnswer(t.p, TaskPC(t).remote, t.sdp)
             ELSE UNCHANGED answers
          /\ UNCHANGED <<offers, offersSent, mixerSources, uncaught>>
     ELSE Reject(t)
  /\ SettleFrame

\* setRemoteDescription(answer) settles.
SettleSetRemoteAnswer(t) ==
  /\ t \in tasks /\ t.op = "setRemoteAnswer"
  /\ IF TaskPC(t).signalingState = "have-local-offer"
     THEN /\ tasks' = tasks \ {t}
          /\ pcs' = [pcs EXCEPT ![t.p][t.n] =
                       [@ EXCEPT !.signalingState = "stable",
                                 !.remoteDescription = t.sdp]]
          /\ onRemoteStream(t.p, TaskPC(t).remote)
          /\ UNCHANGED <<offers, offersSent, answers, uncaught>>
     ELSE Reject(t)
  /\ SettleFrame

\* ----------------------------------------------------------- the transport
\* The candidates p has put for x so far.
SentCandidates(p, x) == {o \in ice[x] : o.from = p}

\* onicecandidate: the connection gathered a candidate; sendIceCandidate puts
\* it at signaling/<x>/ice/<p>_<Date.now()>.
IceCandidate(p, n) ==
  /\ Running(p)
  /\ n \in 1 .. Len(pcs[p])
  /\ IsOpen(pcs[p][n])
  /\ pcs[p][n].localDescription # NoSdp
  /\ LET x == pcs[p][n].remote
         k == Cardinality(SentCandidates(p, x)) + 1 IN
     /\ k <= MaxCand
     /\ ice' = IF signalingService[p]
               THEN [ice EXCEPT ![x] = @ \cup
                       {[id |-> <<p, k>>, from |-> p, candidate |-> <<p, n, k>>]}]
               ELSE ice
  /\ UNCHANGED <<phase, presence, held, seenParticipants,
                 heartbeatInterval, handlersSet, signalingService, offers,
                 answers, processedOffers, processedAnswers,
                 processedCandidates, peerConnections, pcs, tasks, participants,
                 closureParticipants, mixerSources, localCapture, cleanupLog,
                 rosterEvent, offerCalls,
                 answerCalls, offersSent, uncaught>>
  /\ UNCHANGED <<audio, toast, chain, ls>>

\* The connection is stable and holds the two descriptions of one
\* offer/answer exchange.
Paired(pc) ==
  /\ pc.signalingState = "stable"
  /\ \/ /\ pc.localDescription.type = "offer"
        /\ pc.remoteDescription.type = "answer"
        /\ pc.remoteDescription.re = pc.localDescription.by
     \/ /\ pc.remoteDescription.type = "offer"
        /\ pc.localDescription.type = "answer"
        /\ pc.localDescription.re = pc.remoteDescription.by

\* The other end of the exchange: a summarised participant may hold it; a
\* participant that runs the program holds it when its connection for p has
\* the same two descriptions.
PeerAgrees(p, n, x) ==
  \/ phase[x] = "remote"
  \/ /\ phase[x] \in {"joined", "left"}
     /\ peerConnections[x][p] # 0
     /\ LET b == pcs[x][peerConnections[x][p]] IN
        /\ b.signalingState = "stable"
        /\ b.localDescription = pcs[p][n].remoteDescription
        /\ b.remoteDescription = pcs[p][n].localDescription

\* The transport of p's connection to x comes up: connectionState
\* "connected" (onconnectionstatechange only logs it).
Connect(p, x) ==
  LET n == peerConnections[p][x] IN
  /\ p # x /\ Running(p)
  /\ n # 0
  /\ Paired(pcs[p][n])
  /\ PeerAgrees(p, n, x)
  /\ pcs[p][n].connectionState # "connected"
  /\ pcs' = [pcs EXCEPT ![p][n].connectionState = "connected"]
  /\ UNCHANGED <<phase, presence, held, seenParticipants,
                 heartbeatInterval, handlersSet, signalingService, offers,
                 answers, ice, processedOffers, processedAnswers,
                 processedCandidates, peerConnections, tasks, participants,
                 closureParticipants, mixerSources, localCapture, cleanupLog,
                 rosterEvent, offerCalls,
                 answerCalls, offersSent, uncaught>>
  /\ UNCHANGED <<audio, toast, chain, ls>>

\* The onconnectionstatechange handler for "disconnected", "failed" or
\* "closed": it removes the connection the map holds for that remote id and
\* does nothing else.
onconnectionstatechange(p, x) == removePeerConnection(p, x)

\* The transport of p's connection to x is lost, or never comes up.
ConnectionLost(p, x) ==
  LET n == peerConnections[p][x]
      r == onconnectionstatechange(p, x) IN
  /\ Running(p)
  /\ n # 0
  /\ pcs[p][n].localDescription # NoSdp \/ pcs[p][n].remoteDescription # NoSdp
  /\ peerConnections' = [peerConnections EXCEPT ![p] = r.map]
  /\ pcs' = [pcs EXCEPT ![p] = r.list]
  /\ UNCHANGED <<phase, presence, held, seenParticipants,
                 heartbeatInterval, handlersSet, signalingService, offers,
                 answers, ice, processedOffers, processedAnswers,
                 processedCandidates, tasks, participants,
                 closureParticipants, mixerSources, localCapture, cleanupLog,
                 rosterEvent, offerCalls,
                 answerCalls, offersSent, uncaught>>
  /\ UNCHANGED <<audio, toast, chain, ls>>

\* -------------------------------------------------------------- the session
\* announcePresence: put the record, lastSeen: Date.now().
announcePresence(p) == presence' = [presence EXCEPT ![p] = 0]

\* The Meeting page joins: the microphone is captured and added to the
\* mixer, the callbacks capture the participant list, and
\* WebRTCService.initialize connects the signaling service (announce,
\* subscribe, start the heartbeat), registers its handlers in the same turn
\* of the event loop, and the page lists the local participant.
Join(p) ==
  /\ phase[p] = "idle"
  /\ phase' = [phase EXCEPT ![p] = "joined"]
  /\ localCapture' = [localCapture EXCEPT ![p] = TRUE]
  /\ mixerSources' = [mixerSources EXCEPT ![p] = {p}]
  /\ closureParticipants' = [closureParticipants EXCEPT ![p] = participants[p]]
  /\ signalingService' = [signalingService EXCEPT ![p] = TRUE]
  /\ announcePresence(p)
  /\ heartbeatInterval' = [heartbeatInterval EXCEPT ![p] = TRUE]
  /\ handlersSet' = [handlersSet EXCEPT ![p] = TRUE]
  /\ participants' = [participants EXCEPT ![p] = @ \cup {p}]
  /\ UNCHANGED <<held, seenParticipants, offers, answers, ice,
                 processedOffers, processedAnswers, processedCandidates,
                 peerConnections, pcs, tasks, cleanupLog, rosterEvent,
                 offerCalls, answerCalls, offersSent, uncaught>>
  /\ toast' = [toast EXCEPT ![p] = "success"]
  /\ UNCHANGED <<audio, chain, ls>>

\* The Meeting page's initializeAudio when captureAudio throws (getUserMedia
\* is refused, or finds no device): the catch block shows an error toast and
\* initializeWebRTC is never reached.
JoinRefused(p) ==
  /\ phase[p] = "idle"
  /\ phase' = [phase EXCEPT ![p] = "failed"]
  /\ toast' = [toast EXCEPT ![p] = "error"]
  /\ UNCHANGED <<presence, held, seenParticipants, heartbeatInterval,
                 handlersSet, signalingService, offers, answers, ice,
                 processedOffers, processedAnswers, processedCandidates,
                 peerConnections, pcs, tasks, participants,
                 closureParticipants, mixerSources, localCapture, cleanupLog,
                 rosterEvent, offerCalls, answerCalls, offersSent, uncaught>>
  /\ UNCHANGED <<audio, chain, ls>>

\* The Meeting page's initializeAudio when getAudioDevices returns no input
\* device: the block under devices.length > 0 is skipped, and nothing else
\* is done.
JoinNoDevice(p) ==
  /\ phase[p] = "idle"
  /\ phase' = [phase EXCEPT ![p] = "failed"]
  /\ toast' = toast
  /\ UNCHANGED <<presence, held, seenParticipants, heartbeatInterval,
                 handlersSet, signalingService, offers, answers, ice,
                 processedOffers, processedAnswers, processedCandidates,
                 peerConnections, pcs, tasks, participants,
                 closureParticipants, mixerSources, localCapture, cleanupLog,
                 rosterEvent, offerCalls, answerCalls, offersSent, uncaught>>
  /\ UNCHANGED <<audio, chain, ls>>

\* A record one heartbeat period later; past the active window its age no
\* longer matters.
Aged(a) == IF a >= 0 /\ a < ActiveWindow THEN a + 1 ELSE a

\* One heartbeat period passes and every running heartbeat timer fires:
\* announcePresence with the new Date.now().
Tick ==
  /\ presence' = [x \in Ids |->
                    IF heartbeatInterval[x] THEN 0 ELSE Aged(presence[x])]
  /\ held' = [p \in Ids |-> [x \in Ids |-> Aged(held[p][x])]]
  /\ UNCHANGED <<phase, seenParticipants, heartbeatInterval, handlersSet,
                 signalingService, offers, answers, ice, processedOffers,
                 processedAnswers, processedCandidates, peerConnections, pcs,
                 tasks, participants, closureParticipants, mixerSources,
                 localCapture, cleanupLog, rosterEvent, offerCalls,
                 answerCalls, offersSent, uncaught>>
  /\ UNCHANGED <<audio, toast, chain, ls>>

\* WebRTCService.cleanup's first half: close every connection of the map.
closeAll(p) ==
  [n \in 1 .. Len(pcs[p]) |->
     IF \E x \in Ids : peerConnections[p][x] = n
     THEN ClosedPC(pcs[p][n]) ELSE pcs[p][n]]

\* Meeting.cleanup, in the order of its statements: audioService.cleanup
\* stops the captured stream, audioMixer.cleanup drops every source,
\* webrtcService.cleanup closes the connections and then disconnects the
\* signaling service, which clears the heartbeat timer and puts null at the
\* presence key; the store's list is emptied.  No subscription is removed.
cleanup(p) ==
  /\ phase[p] = "joined"
  /\ phase' = [phase EXCEPT ![p] = "left"]
  /\ localCapture' = [localCapture EXCEPT ![p] = FALSE]
  /\ mixerSources' = [mixerSources EXCEPT ![p] = {}]
  /\ pcs' = [pcs EXCEPT ![p] = closeAll(p)]
  /\ peerConnections' = [peerConnections EXCEPT ![p] = [x \in Ids |-> 0]]
  /\ heartbeatInterval' = [heartbeatInterval EXCEPT ![p] = FALSE]
  /\ presence' = [presence EXCEPT ![p] = -1]
  /\ signalingService' = [signalingService EXCEPT ![p] = FALSE]
  /\ participants' = [participants EXCEPT ![p] = {}]
  /\ cleanupLog' = [cleanupLog EXCEPT ![p] =
                      <<"capture", "mixer", "connections", "heartbeat", "presence">>]
  /\ UNCHANGED <<held, seenParticipants, handlersSet, offers, answers, ice,
                 processedOffers, processedAnswers, processedCandidates,
                 tasks, closureParticipants, rosterEvent, offerCalls,
                 answerCalls, offersSent, uncaught>>
  /\ UNCHANGED <<audio, toast, chain, ls>>

\* The participant's page dies (tab closed, network gone): no cleanup runs,
\* its timer and its pending promises are gone, its presence records stay.
Crash(p) ==
  /\ phase[p] \in {"joined", "remote"}
  /\ phase' = [phase EXCEPT ![p] = "crashed"]
  /\ heartbeatInterval' = [heartbeatInterval EXCEPT ![p] = FALSE]
  /\ tasks' = {t \in tasks : t.p # p}
  /\ UNCHANGED <<presence, held, seenParticipants, handlersSet,
                 signalingService, offers, answers, ice, processedOffers,
                 processedAnswers, processedCandidates, peerConnections, pcs,
                 participants, closureParticipants, mixerSources,
                 localCapture, cleanupLog, rosterEvent, offerCalls,
                 answerCalls, offersSent, uncaught>>
  /\ UNCHANGED <<audio, toast, chain, ls>>

\* ------------------------------------------------- summarised participants
\* A remote participant whose program is only summarised by what it may put
\* into the graph: presence records while it is there, offers to a
\* participant that has announced itself, an answer to an offer it got, and
\* candidates once it has sent a description.

\* The remote participant connects: its presence record and its heartbeat.
RemoteJoin(x) ==
  /\ phase[x] = "idle"
  /\ phase' = [phase EXCEPT ![x] = "remote"]
  /\ announcePresence(x)
  /\ heartbeatInterval' = [heartbeatInterval EXCEPT ![x] = TRUE]
  /\ UNCHANGED <<held, seenParticipants, handlersSet, signalingService,
                 offers, answers, ice, processedOffers, processedAnswers,
                 processedCandidates, peerConnections, pcs, tasks,
                 participants, closureParticipants, mixerSources,
                 localCapture, cleanupLog, rosterEvent, offerCalls,
                 answerCalls, offersSent, uncaught>>
  /\ UNCHANGED <<audio, toast, chain, ls>>

\* The remote participant made a connection for p and sends its offer.
RemoteOffer(x, p) ==
  LET v == offers[p][x].timestamp + 1 IN
  /\ phase[x] = "remote" /\ x # p
  /\ presence[p] # -2
  /\ v <= MaxOffers
  /\ sendOffer(x, p, OfferOf(x, v))
  /\ UNCHANGED <<phase, presence, held, seenParticipants, heartbeatInterval,
                 handlersSet, signalingService, answers, ice,
                 processedOffers, processedAnswers, processedCandidates,
                 peerConnections, pcs, tasks, participants,
                 closureParticipants, mixerSources, localCapture, cleanupLog,
                 rosterEvent, offerCalls, answerCalls, uncaught>>
  /\ UNCHANGED <<audio, toast, chain, ls>>

\* The remote participant got p's offer and sends its answer to it.
RemoteAnswer(x, p) ==
  LET m == offers[x][p] IN
  /\ phase[x] = "remote" /\ x # p
  /\ m # NoMsg
  /\ answers[p][x].sdp.re # m.sdp.by
  /\ sendAnswer(x, p, AnswerOf(x, answers[p][x].timestamp + 1, m.sdp))
  /\ UNCHANGED <<phase, presence, held, seenParticipants, heartbeatInterval,
                 handlersSet, signalingService, offers, ice, processedOffers,
                 processedAnswers, processedCandidates, peerConnections, pcs,
                 tasks, participants, closureParticipants, mixerSources,
                 localCapture, cleanupLog, rosterEvent, offerCalls,
                 answerCalls, offersSent, uncaught>>
  /\ UNCHANGED <<audio, toast, chain, ls>>

\* The remote participant's connection for p gathered a candidate.
RemoteIce(x, p) ==
  LET k == Cardinality(SentCandidates(x, p)) + 1 IN
  /\ phase[x] = "remote" /\ x # p
  /\ offers[p][x] # NoMsg \/ answers[p][x] # NoMsg
  /\ k <= MaxCand
  /\ ice' = [ice EXCEPT ![p] = @ \cup
               {[id |-> <<x, k>>, from |-> x, candidate |-> <<x, 0, k>>]}]
  /\ UNCHANGED <<phase, presence, held, seenParticipants, heartbeatInterval,
                 handlersSet, signalingService, offers, answers,
                 processedOffers, processedAnswers, processedCandidates,
                 peerConnections, pcs, tasks, participants,
                 closureParticipants, mixerSources, localCapture, cleanupLog,
                 rosterEvent, offerCalls, answerCalls, offersSent, uncaught>>
  /\ UNCHANGED <<audio, toast, chain, ls>>

\* The remote participant leaves: its cleanup stops its heartbeat and puts
\* null at its presence key.
RemoteLeave(x) ==
  /\ phase[x] = "remote"
  /\ phase' = [phase EXCEPT ![x] = "gone"]
  /\ heartbeatInterval' = [heartbeatInterval EXCEPT ![x] = FALSE]
  /\ presence' = [presence EXCEPT ![x] = -1]
  /\ UNCHANGED <<held, seenParticipants, handlersSet, signalingService,
                 offers, answers, ice, processedOffers, processedAnswers,
                 processedCandidates, peerConnections, pcs, tasks,
                 participants, closureParticipants, mixerSources,
                 localCapture, cleanupLog, rosterEvent, offerCalls,
                 answerCalls, offersSent, uncaught>>
  /\ UNCHANGED <<audio, toast, chain, ls>>

\* Malformed records a faulty or hostile participant puts for one peer.
MaxBad == 1

Shapes == {"no type", "no sdp"}

\* A description of the given type that lacks its type, or its sdp.
Malformed(shape, type, x, v) ==
  IF shape = "no type"
  THEN [type |-> "", by |-> <<x, v>>, re |-> NoPC]
  ELSE [type |-> type, by |-> NoPC, re |-> NoPC]

\* The remote participant puts an offer record whose offer is malformed.
RemoteBadOffer(x, p, shape) ==
  LET v == offers[p][x].timestamp + 1 IN
  /\ phase[x] = "remote" /\ x # p
  /\ v <= MaxOffers + MaxBad
  /\ offers' = [offers EXCEPT ![p][x] =
                  [timestamp |-> v, sdp |-> Malformed(shape, "offer", x, v)]]
  /\ UNCHANGED <<phase, presence, held, seenParticipants, heartbeatInterval,
                 handlersSet, signalingService, answers, ice, processedOffers,
                 processedAnswers, processedCandidates, peerConnections, pcs,
                 tasks, participants, closureParticipants, mixerSources,
                 localCapture, cleanupLog, rosterEvent, offerCalls,
                 answerCalls, offersSent, uncaught>>
  /\ UNCHANGED <<audio, toast, chain, ls>>

\* The remote participant puts an answer record whose answer is malformed,
\* before any answer of its own.
RemoteBadAnswer(x, p, shape) ==
  LET v == answers[p][x].timestamp + 1 IN
  /\ phase[x] = "remote" /\ x # p
  /\ answers[p][x] = NoMsg
  /\ v <= MaxBad
  /\ answers' = [answers EXCEPT ![p][x] =
                   [timestamp |-> v, sdp |-> Malformed(shape, "answer", x, v)]]
  /\ UNCHANGED <<phase, presence, held, seenParticipants, heartbeatInterval,
                 handlersSet, signalingService, offers, ice, processedOffers,
                 processedAnswers, processedCandidates, peerConnections, pcs,
                 tasks, participants, closureParticipants, mixerSources,
                 localCapture, cleanupLog, rosterEvent, offerCalls,
                 answerCalls, offersSent, uncaught>>
  /\ UNCHANGED <<audio, toast, chain, ls>>

\* The remote participant puts a candidate record with no candidate object,
\* or with an empty candidate string.
RemoteBadIce(x, p, candidate) ==
  /\ phase[x] = "remote" /\ x # p
  /\ candidate \in {<<>>, <<"">>}
  /\ Cardinality({m \in ice[p] : ~HasCandidate(m.candidate)}) < MaxBad
  /\ ice' = [ice EXCEPT ![p] = @ \cup
               {[id |-> <<x, MaxCand + 1>>, from |-> x, candidate |-> candidate]}]
  /\ UNCHANGED <<phase, presence, held, seenParticipants, heartbeatInterval,
                 handlersSet, signalingService, offers, answers, processedOffers,
                 processedAnswers, processedCandidates, peerConnections, pcs,
                 tasks, participants, closureParticipants, mixerSources,
                 localCapture, cleanupLog, rosterEvent, offerCalls,
                 answerCalls, offersSent, uncaught>>
  /\ UNCHANGED <<audio, toast, chain, ls>>

\* ---------------------------------------------------------- the audio graph
\* One ParticipantAudioMixer and one AudioService, taken on their own and
\* driven through their public methods.  (The session above keeps of its
\* mixer only the ids that have a source, mixerSources.)

\* The ids a source is added for, and the MediaStream handles given.
MixerIds == {"A", "B"}

Streams == {1, 2}

\* Paths one mixer builds, and AudioContexts it constructs.
MaxPaths == 3

MaxContexts == 2

\* Gains and volumes are counted in quarters: gain.value 1 is GainOne.
GainOne == 4

\* Math.min(1, volume) of setStreamVolume, Math.min(2, volume) of
\* setParticipantVolume.
LocalMax == 4

RemoteMax == 8

\* The volumes asked for: below the range, inside it, and above it.
Volumes == {-1, 0, 2, 6, 9}

\* Levels are counted in tenths of the analyser's full scale; the input
\* signal of a stream is silent or at full scale.
FullScale == 10

Signals == {0, FullScale}

\* analyserNode.smoothingTimeConstant = 0.8: each read of the frequency data
\* keeps 4/5 of the previous block and takes 1/5 of the current one.
SmoothKeep == 4

SmoothOf == 5

\* The default threshold of isParticipantSpeaking, 0.1 of full scale.
Threshold == 1

Min(a, b) == IF a < b THEN a ELSE b

Max(a, b) == IF a > b THEN a ELSE b

\* Everything but the audio objects.
sessionVars == <<phase, presence, held, seenParticipants, heartbeatInterval,
                 handlersSet, signalingService, offers, answers, ice,
                 processedOffers, processedAnswers, processedCandidates,
                 peerConnections, pcs, tasks, participants,
                 closureParticipants, mixerSources, localCapture, cleanupLog,
                 rosterEvent, offerCalls, answerCalls, offersSent, uncaught,
                 toast, chain, ls>>

\* A call recorded: its method, the id and the argument given, what it
\* returned, and for a read of the level whether it is the first call after
\* setParticipantMuted(id, true).
Called(op, id, arg, result, first) ==
  [op |-> op, id |-> id, arg |-> arg, result |-> result, first |-> first]

NoOp == Called("", "", 0, 0, FALSE)

NoTrip == [id |-> "", stage |-> 0, gain |-> 0]

\* The input devices captured, the user's address, and the keys the maps
\* of AudioService are asked for: a device id or an address.
Devices == {"mic1", "mic2"}

UserAddress == "A"

StreamKeys == Devices \cup {UserAddress}

\* Calls of getUserMedia.
MaxCaptures == 3

\* AudioService as constructed, by key: no stream and no gain node (0);
\* every MediaStream getUserMedia has returned and every gain node
\* addStreamToMix has made; and the store's isMuted.
NoCapture ==
  [streams |-> <<>>, gains |-> <<>>,
   streamOf |-> [k \in StreamKeys |-> 0],
   gainOf |-> [k \in StreamKeys |-> 0],
   isMuted |-> FALSE]

\* The two objects as constructed: no context, empty maps.
NoAudio ==
  [contexts |-> <<>>, audioContext |-> 0, destinationNode |-> 0,
   mixedStream |-> 0, graph |-> <<>>,
   participantSources |-> [id \in MixerIds |-> 0],
   participantGains |-> [id \in MixerIds |-> 0],
   participantAnalysers |-> [id \in MixerIds |-> 0],
   gainNodes |-> [id \in MixerIds |-> -1],
   mediaStreams |-> [id \in MixerIds |-> "none"],
   lastOp |-> NoOp, muteTrip |-> NoTrip, cleaned |-> FALSE,
   capture |-> NoCapture]

\* Every AudioContext the mixer has constructed: its state.
contexts == audio.contexts

\* ParticipantAudioMixer.audioContext: a context number, 0 for null.
audioContext == audio.audioContext

\* ParticipantAudioMixer.destinationNode: the context it belongs to.
destinationNode == audio.destinationNode

\* ParticipantAudioMixer.mixedStream: the context whose destination stream it
\* is, 0 for null.
mixedStream == audio.mixedStream

\* Every source/gain/analyser path addParticipant has built.
graph == audio.graph

\* ParticipantAudioMixer's maps: id -> path number, 0 if absent.
participantSources == audio.participantSources

participantGains == audio.participantGains

participantAnalysers == audio.participantAnalysers

\* AudioService.gainNodes: id -> gain.value, -1 if absent.
gainNodes == audio.gainNodes

\* AudioService.mediaStreams: id -> "none", or whether the captured track is
\* "enabled" or "disabled".
mediaStreams == audio.mediaStreams

\* The last call made on the mixer or the audio service.
lastOp == audio.lastOp

\* How far a volume, mute, unmute sequence on one id has got.
muteTrip == audio.muteTrip

\* Whether the mixer's cleanup has run.
cleaned == audio.cleaned

\* A context is open from its construction until close() is called on it.
\* Where the engine closes at once the state reads "closed" after the call;
\* where it closes in a later task the context is "closing" and its state
\* attribute still reads "running" until then.
IsOpenContext(c) == contexts[c] = "running"

StateAttribute(c) == IF contexts[c] = "closed" THEN "closed" ELSE "running"

\* ensureAudioContext: a new context, destination and mixed stream when there
\* is no context or its state reads "closed".
ensureAudioContext ==
  IF audioContext = 0 \/ StateAttribute(audioContext) = "closed"
  THEN LET c == Len(contexts) + 1 IN
       [contexts |-> Append(contexts, "running"), audioContext |-> c,
        destinationNode |-> c, mixedStream |-> c]
  ELSE [contexts |-> contexts, audioContext |-> audioContext,
        destinationNode |-> destinationNode, mixedStream |-> mixedStream]

\* removeParticipant that only forgets the nodes: the maps lose the id, no
\* node is disconnected.
removeParticipantFromMaps(id) ==
  [graph     |-> graph,
   sources   |-> [participantSources EXCEPT ![id] = 0],
   gains     |-> [participantGains EXCEPT ![id] = 0],
   analysers |-> [participantAnalysers EXCEPT ![id] = 0]]

\* removeParticipant: disconnect the source, the gain and the analyser the
\* maps hold for id, and delete the entries.  (The analyser has no output of
\* its own; it is cut off with the gain that feeds it.)
removeParticipant(id) ==
  LET s  == participantSources[id]
      g  == participantGains[id]
      g1 == IF s # 0 THEN [graph EXCEPT ![s].sourceOut = FALSE] ELSE graph
      g2 == IF g # 0 THEN [g1 EXCEPT ![g].gainOut = FALSE] ELSE g1 IN
  [graph     |-> g2,
   sources   |-> [participantSources EXCEPT ![id] = 0],
   gains     |-> [participantGains EXCEPT ![id] = 0],
   analysers |-> [participantAnalysers EXCEPT ![id] = 0]]

\* source -> gain -> analyser, gain -> destination, on the mixer's context.
NewPath(id, stream, c) ==
  [id |-> id, stream |-> stream, ctx |-> c, sourceOut |-> TRUE,
   gainOut |-> TRUE, value |-> GainOne, smoothed |-> 0]

\* addParticipant(participantId, stream).
addParticipant(id, stream) ==
  LET e == ensureAudioContext
      r == IF participantSources[id] # 0
           THEN removeParticipant(id)
           ELSE [graph |-> graph, sources |-> participantSources,
                 gains |-> participantGains,
                 analysers |-> participantAnalysers]
      n == Len(graph) + 1 IN
  /\ Len(graph) < MaxPaths
  /\ Len(e.contexts) <= MaxContexts
  /\ audio' = [audio EXCEPT
                 !.contexts = e.contexts,
                 !.audioContext = e.audioContext,
                 !.destinationNode = e.destinationNode,
                 !.mixedStream = e.mixedStream,
                 !.graph = Append(r.graph, NewPath(id, stream, e.audioContext)),
                 !.participantSources = [r.sources EXCEPT ![id] = n],
                 !.participantGains = [r.gains EXCEPT ![id] = n],
                 !.participantAnalysers = [r.analysers EXCEPT ![id] = n],
                 !.lastOp = Called("addParticipant", id, stream, 0, FALSE),
                 !.muteTrip = NoTrip]
  /\ UNCHANGED sessionVars

\* A caller removes a participant from the mixer.
CallRemoveParticipant(id) ==
  LET r == removeParticipant(id) IN
  /\ participantSources[id] # 0
  /\ audio' = [audio EXCEPT
                 !.graph = r.graph,
                 !.participantSources = r.sources,
                 !.participantGains = r.gains,
                 !.participantAnalysers = r.analysers,
                 !.lastOp = Called("removeParticipant", id, 0, 0, FALSE),
                 !.muteTrip = NoTrip]
  /\ UNCHANGED sessionVars

\* ParticipantAudioMixer.cleanup: every node the maps hold is disconnected,
\* the maps are cleared, and close() is called on the context unless its
\* state reads "closed".  The fields audioContext, destinationNode and
\* mixedStream keep their values.
audioMixerCleanup ==
  /\ \E after \in {"closed", "closing"} :
       audio' = [audio EXCEPT
         !.graph = [n \in DOMAIN graph |->
                      [graph[n] EXCEPT
                         !.sourceOut = @ /\ ~(\E id \in MixerIds : participantSources[id] = n),
                         !.gainOut = @ /\ ~(\E id \in MixerIds : participantGains[id] = n)]],
         !.participantSources = [id \in MixerIds |-> 0],
         !.participantGains = [id \in MixerIds |-> 0],
         !.participantAnalysers = [id \in MixerIds |-> 0],
         !.contexts = IF audioContext # 0 /\ StateAttribute(audioContext) # "closed"
                      THEN [contexts EXCEPT ![audioContext] =
                              IF @ = "running" THEN after ELSE @]
                      ELSE contexts,
         !.lastOp = Called("cleanup", "", 0, 0, FALSE),
         !.muteTrip = NoTrip,
         !.cleaned = TRUE]
  /\ UNCHANGED sessionVars

\* getMixedStream(): the field, as it is.
getMixedStream ==
  /\ audio' = [audio EXCEPT
                 !.lastOp = Called("getMixedStream", "", 0, mixedStream, FALSE)]
  /\ UNCHANGED sessionVars

\* The promise of close() settles: the context is closed.
CloseSettles(c) ==
  /\ c \in DOMAIN contexts
  /\ contexts[c] = "closing"
  /\ audio' = [audio EXCEPT !.contexts[c] = "closed"]
  /\ UNCHANGED sessionVars

\* Math.max(0, Math.min(2, volume)) without the clamp.
RemoteGainUnclamped(volume) == volume

\* Math.max(0, Math.min(2, volume)).
RemoteGain(volume) == Max(0, Min(RemoteMax, volume))

\* Math.max(0, Math.min(1, volume)).
LocalGain(volume) == Max(0, Min(LocalMax, volume))

\* setParticipantVolume(participantId, volume).
setParticipantVolume(id, volume) ==
  LET g == participantGains[id] IN
  /\ audio' = [audio EXCEPT
                 !.graph = IF g # 0
                           THEN [graph EXCEPT ![g].value = RemoteGain(volume)]
                           ELSE graph,
                 !.lastOp = Called("setParticipantVolume", id, volume, 0, FALSE),
                 !.muteTrip = IF g # 0
                              THEN [id |-> id, stage |-> 1,
                                    gain |-> RemoteGain(volume)]
                              ELSE NoTrip]
  /\ UNCHANGED sessionVars

\* setParticipantMuted(participantId, muted): gain.value = muted ? 0 : 1.
setParticipantMuted(id, muted) ==
  LET g == participantGains[id] IN
  /\ audio' = [audio EXCEPT
                 !.graph = IF g # 0
                           THEN [graph EXCEPT ![g].value =
                                   IF muted THEN 0 ELSE GainOne]
                           ELSE graph,
                 !.lastOp = Called("setParticipantMuted", id,
                                   IF muted THEN 1 ELSE 0, 0, FALSE),
                 !.muteTrip = IF g # 0 /\ muteTrip.id = id
                                   /\ muteTrip.stage = (IF muted THEN 1 ELSE 2)
                              THEN [muteTrip EXCEPT !.stage = @ + 1]
                              ELSE NoTrip]
  /\ UNCHANGED sessionVars

\* What reaches the analyser of a path from an input of the given energy.
Gained(path, input) ==
  IF path.sourceOut /\ path.gainOut
  THEN Min(FullScale, (input * path.value) \div GainOne)
  ELSE 0

\* analyser.getByteFrequencyData, averaged: the block read is the previous
\* block smoothed over time with the current one.
Smoothed(previous, current) ==
  (SmoothKeep * previous + (SmoothOf - SmoothKeep) * current) \div SmoothOf

\* getParticipantLevel(participantId), while the stream carries input.
getParticipantLevel(id, input, op) ==
  LET a == participantAnalysers[id]
      level == IF a = 0 THEN 0
               ELSE Smoothed(graph[a].smoothed, Gained(graph[a], input))
      first == /\ lastOp.op = "setParticipantMuted"
               /\ lastOp.id = id /\ lastOp.arg = 1 IN
  /\ audio' = [audio EXCEPT
                 !.graph = IF a # 0
                           THEN [graph EXCEPT ![a].smoothed = level]
                           ELSE graph,
                 !.lastOp = Called(op, id, input, level, first)]
  /\ UNCHANGED sessionVars

\* isParticipantSpeaking's comparison with its default threshold.
IsSpeaking(level) == level > Threshold

\* isParticipantSpeaking(participantId): getParticipantLevel, compared.
isParticipantSpeaking(id, input) ==
  getParticipantLevel(id, input, "isParticipantSpeaking")

\* AudioService.captureAudio succeeds: the stream is kept and addStreamToMix
\* gives it a gain node.
captureAudio(id) ==
  /\ audio' = [audio EXCEPT
                 !.mediaStreams[id] = "enabled",
                 !.gainNodes[id] = GainOne,
                 !.lastOp = Called("captureAudio", id, 0, 0, FALSE)]
  /\ UNCHANGED sessionVars

\* AudioService.setStreamVolume(id, volume).
setStreamVolume(id, volume) ==
  /\ audio' = [audio EXCEPT
                 !.gainNodes = IF gainNodes[id] # -1
                               THEN [gainNodes EXCEPT ![id] = LocalGain(volume)]
                               ELSE gainNodes,
                 !.lastOp = Called("setStreamVolume", id, volume, 0, FALSE)]
  /\ UNCHANGED sessionVars

\* AudioService.setStreamMuted(id, muted): track.enabled = !muted.
setStreamMuted(id, muted) ==
  /\ audio' = [audio EXCEPT
                 !.mediaStreams = IF mediaStreams[id] # "none"
                                  THEN [mediaStreams EXCEPT ![id] =
                                          IF muted THEN "disabled" ELSE "enabled"]
                                  ELSE mediaStreams,
                 !.lastOp = Called("setStreamMuted", id,
                                   IF muted THEN 1 ELSE 0, 0, FALSE)]
  /\ UNCHANGED sessionVars

\* ------------------------------------------------ AudioService, by its keys
\* captureAudio, removeStream and setStreamMuted with the keys they are
\* called with, and the streams and nodes they leave behind.
capture == audio.capture

isMuted == audio.capture.isMuted

\* captureAudio(deviceId, config) succeeds: getUserMedia returns a new
\* stream, mediaStreams.set(deviceId, stream), and addStreamToMix connects a
\* new gain node to the destination and sets it in gainNodes.
captureDevice(deviceId) ==
  /\ Len(capture.streams) < MaxCaptures
  /\ audio' = [audio EXCEPT
       !.capture.streams =
          Append(@, [deviceId |-> deviceId, stopped |-> FALSE, enabled |-> TRUE]),
       !.capture.gains = Append(@, [id |-> deviceId, connected |-> TRUE]),
       !.capture.streamOf[deviceId] = Len(capture.streams) + 1,
       !.capture.gainOf[deviceId] = Len(capture.gains) + 1]
  /\ UNCHANGED sessionVars

\* removeStream(id): the stream the map holds for id is stopped and
\* deleted, the gain node it holds for id disconnected and deleted.
removeStream(id) ==
  LET s == capture.streamOf[id]
      g == capture.gainOf[id] IN
  /\ audio' = [audio EXCEPT
       !.capture.streams = IF s # 0 THEN [@ EXCEPT ![s].stopped = TRUE] ELSE @,
       !.capture.streamOf[id] = 0,
       !.capture.gains = IF g # 0 THEN [@ EXCEPT ![g].connected = FALSE] ELSE @,
       !.capture.gainOf[id] = 0]
  /\ UNCHANGED sessionVars

\* mediaStreams.get(id) of setStreamMuted.
StreamFor(id) == capture.streamOf[id]

\* setStreamMuted(id, muted) on the streams: track.enabled = !muted on the
\* stream the map holds for id, nothing when it holds none.
MuteStream(streams, id, muted) ==
  IF StreamFor(id) # 0
  THEN [streams EXCEPT ![StreamFor(id)].enabled = ~muted]
  ELSE streams

\* Meeting.handleMuteToggle, in a meeting whose initializeAudio has captured
\* the first device: setStreamMuted(user.address, !isMuted), setIsMuted.
handleMuteToggle ==
  LET newMutedState == ~isMuted IN
  /\ capture.streams # <<>>
  /\ audio' = [audio EXCEPT
       !.capture.streams = MuteStream(@, UserAddress, newMutedState),
       !.capture.isMuted = newMutedState]
  /\ UNCHANGED sessionVars

\* ---------------------------------------------- LocalStorageSignalingService
\* One service, of participant Me, in a browser whose localStorage the other
\* participants write from their own tabs.  Date.now() is one clock for all
\* of them; it is counted in steps, and any number of writes fit into one.

\* The participant whose service this is, and the others.
Me == "A"

Others == {"B", "C"}

\* The steps of the clock, the candidates a participant sends, and the ICE
\* records the ice key may hold.
MaxNow == 3

MaxSent == 2

MaxIce == 2

\* The offers, and the answers, one participant sends to Me.
MaxStored == 1

\* 15000 ms without a heartbeat make a participant inactive: three steps of
\* presence age.
InactiveAfter == 3

\* Everything but the service and the localStorage.
backendVars == <<phase, presence, held, seenParticipants, heartbeatInterval,
                 handlersSet, signalingService, offers, answers, ice,
                 processedOffers, processedAnswers, processedCandidates,
                 peerConnections, pcs, tasks, participants,
                 closureParticipants, mixerSources, localCapture, cleanupLog,
                 rosterEvent, offerCalls, answerCalls, offersSent, uncaught,
                 toast, audio, chain>>

\* A record of an offers, answers or ice key: the key it is stored under
\* within the JSON object (the sender, and for a candidate the time as
\* well), its from, payload and timestamp fields.
Stored(kind, id, from, payload, timestamp) ==
  [kind |-> kind, id |-> id, from |-> from, payload |-> payload,
   timestamp |-> timestamp]

\* The service before connect, and an empty localStorage.  Each key holds
\* its records in the order Object.entries gives them: that of insertion.
\* handed counts, by record, the callback calls of the polling loop, and
\* notified those of the storage events the record's write caused.
NoStore ==
  [now |-> 1,
   pollInterval |-> FALSE,
   lastSeenTimestamp |-> 0,
   lsOffers |-> <<>>,
   lsAnswers |-> <<>>,
   lsIce |-> <<>>,
   lsParticipants |-> [x \in Others |-> -1],
   events |-> {},
   handed |-> [r \in {} |-> 0],
   notified |-> [r \in {} |-> 0],
   sentIce |-> [x \in Others |-> 0],
   joinedCalls |-> [x \in Others |-> 0],
   leftCalls |-> [x \in Others |-> 0],
   departures |-> [x \in Others |-> 0]]

\* Date.now().
DateNow == ls.now

\* LocalStorageSignalingService.lastSeenTimestamp and pollInterval.
lastSeenTimestamp == ls.lastSeenTimestamp

pollInterval == ls.pollInterval

\* obj[key] = record on the parsed JSON object: a key it has keeps its
\* place, a new one goes last.
SetKey(list, record) ==
  IF \E i \in DOMAIN list : list[i].id = record.id
  THEN [i \in DOMAIN list |-> IF list[i].id = record.id THEN record ELSE list[i]]
  ELSE Append(list, record)

\* The records of a key that x has stored.
StoredBy(list, x) == Len(SelectSeq(list, LAMBDA record : record.from = x))

\* A callback call counted, for the record that caused it.
Count(handed, record) ==
  IF record \in DOMAIN handed
  THEN [handed EXCEPT ![record] = IF @ < 2 THEN @ + 1 ELSE @]
  ELSE [r \in DOMAIN handed \cup {record} |->
          IF r = record THEN 1 ELSE handed[r]]

\* The test of checkForSignalingMessages with the timestamp left out.
IsUnseenAlways(record, last) == TRUE

\* data.timestamp > this.lastSeenTimestamp.
IsUnseen(record, last) == record.timestamp > last

\* One forEach of checkForSignalingMessages over the records of a key: a
\* record newer than lastSeenTimestamp goes to the callback, and
\* lastSeenTimestamp becomes its timestamp.
RECURSIVE ScanKey(_, _)
ScanKey(list, acc) ==
  IF list = <<>>
  THEN acc
  ELSE ScanKey(Tail(list),
               IF IsUnseen(Head(list), acc.last)
               THEN [last |-> Head(list).timestamp,
                     handed |-> Count(acc.handed, Head(list))]
               ELSE acc)

\* checkForSignalingMessages: offers, then answers, then ICE candidates.
checkForSignalingMessages(store) ==
  LET scanned ==
        ScanKey(store.lsIce,
          ScanKey(store.lsAnswers,
            ScanKey(store.lsOffers,
                    [last |-> store.lastSeenTimestamp, handed |-> store.handed]))) IN
  [store EXCEPT !.lastSeenTimestamp = scanned.last, !.handed = scanned.handed]

\* checkForInactiveParticipants: the left callback for every other entry of
\* the participants key whose lastSeen is 15 s old.
IsInactive(age) == age >= InactiveAfter

checkForInactiveParticipants(store) ==
  [store EXCEPT
     !.leftCalls = [x \in Others |->
                      IF store.lsParticipants[x] >= 0 /\ IsInactive(store.lsParticipants[x])
                      THEN (IF @[x] < 2 THEN @[x] + 1 ELSE @[x])
                      ELSE @[x]]]

\* candidateId = `${this.participantId}_${Date.now()}`.
candidateId(x, now) == <<x, now>>

\* Every record the others may store for Me.
Records ==
  {Stored(kind, <<x, 0>>, x, 0, t) :
     kind \in {"offer", "answer"}, x \in Others, t \in 1 .. MaxNow}
  \cup {Stored("ice", candidateId(x, t), x, n, t) :
          x \in Others, t \in 1 .. MaxNow, n \in 1 .. MaxSent}

\* connect: announcePresence and startPolling.
LsConnect ==
  /\ ~pollInterval
  /\ ls' = [ls EXCEPT !.pollInterval = TRUE]
  /\ UNCHANGED backendVars

\* The interval of startPolling fires: checkForSignalingMessages,
\* updateHeartbeat (Me's own entry only), checkForInactiveParticipants.
Poll ==
  /\ pollInterval
  /\ ls' = checkForInactiveParticipants(checkForSignalingMessages(ls))
  /\ UNCHANGED backendVars

\* handleStorageChange for a write to an offers, answers or ice key: the
\* new value is the whole JSON object of the key, keyed by sender or
\* candidate id, so data.from and data.offer (answer, candidate) are
\* undefined, and the callback is called with them.
handleStorageChange(record) ==
  /\ pollInterval
  /\ record \in ls.events
  /\ ls' = [ls EXCEPT !.events = @ \ {record},
                      !.notified = Count(@, record)]
  /\ UNCHANGED backendVars

\* The clock goes on; no storage event waits longer than that.
Advance ==
  /\ DateNow < MaxNow
  /\ ls.events = {}
  /\ ls' = [ls EXCEPT !.now = @ + 1]
  /\ UNCHANGED backendVars

\* A write of another tab to a key of Me: localStorage.setItem, and a
\* storage event for Me's window.
Write(store, field, record) ==
  [store EXCEPT ![field] = SetKey(@, record),
                !.events = IF store.pollInterval THEN @ \cup {record} ELSE @]

\* sendOffer(Me, offer) of x: offers[x] = {from, offer, timestamp: Date.now()}.
LsSendOffer(x) ==
  /\ StoredBy(ls.lsOffers, x) < MaxStored
  /\ ls' = Write(ls, "lsOffers", Stored("offer", <<x, 0>>, x, 0, DateNow))
  /\ UNCHANGED backendVars

\* sendAnswer(Me, answer) of x.
LsSendAnswer(x) ==
  /\ StoredBy(ls.lsAnswers, x) < MaxStored
  /\ ls' = Write(ls, "lsAnswers", Stored("answer", <<x, 0>>, x, 0, DateNow))
  /\ UNCHANGED backendVars

\* sendIceCandidate(Me, candidate) of x, for x's next candidate.
LsSendIceCandidate(x) ==
  LET n == ls.sentIce[x] + 1 IN
  /\ n <= MaxSent
  /\ Len(SetKey(ls.lsIce, Stored("ice", candidateId(x, DateNow), x, n, DateNow))) <= MaxIce
  /\ ls' = [Write(ls, "lsIce", Stored("ice", candidateId(x, DateNow), x, n, DateNow))
              EXCEPT !.sentIce[x] = n]
  /\ UNCHANGED backendVars

\* connect of x in its own tab: its entry of the participants key, and a
\* participant-joined event on its own window.  handleParticipantJoined of
\* Me runs only when Me lives in that window too.
LsRemoteConnect(x, sameWindow) ==
  /\ ls.lsParticipants[x] = -1
  /\ ls.departures[x] = 0
  /\ ls' = [ls EXCEPT !.lsParticipants[x] = 0,
                      !.joinedCalls[x] = IF sameWindow /\ pollInterval /\ @ < 2
                                         THEN @ + 1 ELSE @]
  /\ UNCHANGED backendVars

\* updateHeartbeat of x.
LsRemoteHeartbeat(x) ==
  /\ ls.lsParticipants[x] > 0
  /\ ls.departures[x] = 0
  /\ ls' = [ls EXCEPT !.lsParticipants[x] = 0]
  /\ UNCHANGED backendVars

\* Five seconds pass.
LsAge ==
  /\ \E x \in Others : ls.lsParticipants[x] \in 0 .. InactiveAfter - 1
  /\ ls' = [ls EXCEPT !.lsParticipants =
                        [x \in Others |-> IF @[x] \in 0 .. InactiveAfter - 1
                                          THEN @[x] + 1 ELSE @[x]]]
  /\ UNCHANGED backendVars

\* The tab of x is closed: its heartbeat stops, its entry stays.
LsRemoteGone(x) ==
  /\ ls.lsParticipants[x] >= 0
  /\ ls.departures[x] = 0
  /\ ls' = [ls EXCEPT !.departures[x] = 1]
  /\ UNCHANGED backendVars

\* disconnect of x: its entry is deleted from the participants key.
LsRemoteDisconnect(x) ==
  /\ ls.lsParticipants[x] >= 0
  /\ ls.departures[x] = 0
  /\ ls' = [ls EXCEPT !.lsParticipants[x] = -1, !.departures[x] = 1]
  /\ UNCHANGED backendVars

\* ------------------------------------------------------------ the contracts
\* CommunityAccess and MeetingScheduler, each taken on its own and driven by
\* transactions from a few accounts.  A transaction whose require fails
\* reverts: it leaves the storage as it was, and only lastCall tells it was
\* sent.  Ids count from 0 as in the contracts: community c is
\* communities[c + 1].

\* The accounts that send transactions; Deployer deployed both contracts and
\* is their Ownable owner.
Accounts == {"O", "U", "V"}

Deployer == "O"

\* Communities created, and entries a list of userCommunities or a
\* participant list may hold.
MaxCommunities == 2

MaxEntries == 3

\* The names a community is given.
Names == {"n1", "n2"}

\* The arrays given to addParticipantsToCommunity.
Batches == {<<"U", "V">>, <<"V", "V">>, <<"U", "O">>}

\* Everything but the contracts.
offChainVars == <<phase, presence, held, seenParticipants, heartbeatInterval,
                  handlersSet, signalingService, offers, answers, ice,
                  processedOffers, processedAnswers, processedCandidates,
                  peerConnections, pcs, tasks, participants,
                  closureParticipants, mixerSources, localCapture, cleanupLog,
                  rosterEvent, offerCalls, answerCalls, offersSent, uncaught,
                  toast, audio, ls>>

\* A transaction: the function called, msg.sender, the id it names, and
\* whether it went through.
Tx(fn, sender, id, ok) == [fn |-> fn, sender |-> sender, id |-> id, ok |-> ok]

\* Both contracts as deployed.
NoChain ==
  [communities |-> <<>>,
   communityRequiresLivepeer |-> <<>>,
   userCommunities |-> [a \in Accounts |-> <<>>],
   globalAllowlist |-> {},
   globalParticipants |-> <<>>,
   meetings |-> <<>>,
   communityMeetings |-> <<>>,
   hostMeetings |-> [a \in Accounts |-> <<>>],
   lastCall |-> Tx("", "", 0, TRUE)]

\* CommunityAccess.communities; communityCount is its length.
communities == chain.communities

communityCount == Len(chain.communities)

\* CommunityAccess.communityRequiresLivepeer, by community.
communityRequiresLivepeer == chain.communityRequiresLivepeer

\* CommunityAccess.userCommunities.
userCommunities == chain.userCommunities

\* CommunityAccess.globalAllowlist: the addresses mapped to true.
globalAllowlist == chain.globalAllowlist

\* CommunityAccess.globalParticipants.
globalParticipants == chain.globalParticipants

\* The last transaction sent to either contract.
lastCall == chain.lastCall

\* Ownable.owner().
owner == Deployer

\* require(...) failed: the transaction reverts.
Revert(fn, sender, id) ==
  /\ chain' = [chain EXCEPT !.lastCall = Tx(fn, sender, id, FALSE)]
  /\ UNCHANGED offChainVars

\* The loop of removeParticipantFromCommunity and removeFromGlobalAllowlist:
\* the first entry equal to x is overwritten by the last one, and the last
\* one popped.
SwapAndPop(list, x) ==
  IF \E i \in DOMAIN list : list[i] = x
  THEN LET i == CHOOSE k \in DOMAIN list :
                  list[k] = x /\ \A j \in 1 .. k - 1 : list[j] # x IN
       SubSeq([list EXCEPT ![i] = list[Len(list)]], 1, Len(list) - 1)
  ELSE list

\* createCommunity without the creator's entry.
NewCommunityEmpty(sender, name) ==
  [owner |-> sender, name |-> name, isActive |-> TRUE,
   allowedParticipants |-> {}, participantList |-> <<>>]

\* The Community createCommunity fills in: the creator owns it, it is
\* active, and the creator is allowed and listed.
NewCommunity(sender, name) ==
  [owner |-> sender, name |-> name, isActive |-> TRUE,
   allowedParticipants |-> {sender}, participantList |-> <<sender>>]

\* createCommunity(name, description, requireLivepeerRegistration).
createCommunity(sender, name, requireLivepeerRegistration) ==
  LET communityId == communityCount IN
  /\ communityCount < MaxCommunities
  /\ Len(userCommunities[sender]) < MaxEntries
  /\ chain' = [chain EXCEPT
                 !.communities = Append(@, NewCommunity(sender, name)),
                 !.communityRequiresLivepeer = Append(@, requireLivepeerRegistration),
                 !.userCommunities[sender] = Append(@, communityId),
                 !.lastCall = Tx("createCommunity", sender, communityId, TRUE)]
  /\ UNCHANGED offChainVars

\* The second require of the add and remove functions, waived.
MayManageAnyone(sender, community) == TRUE

\* msg.sender == community.owner || msg.sender == owner().
MayManage(sender, community) == sender = community.owner \/ sender = owner

\* An address is added: allowed, listed, and the community noted for it.
AddOne(store, c, participant) ==
  [store EXCEPT
     !.communities[c + 1].allowedParticipants = @ \cup {participant},
     !.communities[c + 1].participantList = Append(@, participant),
     !.userCommunities[participant] = Append(@, c)]

\* addParticipantToCommunity(communityId, participant).
addParticipantToCommunity(sender, c, participant) ==
  IF /\ c < communityCount
     /\ MayManage(sender, communities[c + 1])
     /\ participant \notin communities[c + 1].allowedParticipants
  THEN /\ Len(userCommunities[participant]) < MaxEntries
       /\ chain' = [AddOne(chain, c, participant) EXCEPT
                      !.lastCall = Tx("addParticipantToCommunity", sender, c, TRUE)]
       /\ UNCHANGED offChainVars
  ELSE Revert("addParticipantToCommunity", sender, c)

\* The loop of addParticipantsToCommunity with no test of the flag.
RECURSIVE AddEachAgain(_, _, _)
AddEachAgain(store, c, list) ==
  IF list = <<>>
  THEN store
  ELSE AddEachAgain(AddOne(store, c, Head(list)), c, Tail(list))

\* The loop of addParticipantsToCommunity: each address not yet allowed is
\* allowed, listed, and the community noted for it.
RECURSIVE AddEach(_, _, _)
AddEach(store, c, list) ==
  IF list = <<>>
  THEN store
  ELSE AddEach(IF Head(list) \notin store.communities[c + 1].allowedParticipants
               THEN AddOne(store, c, Head(list))
               ELSE store,
               c, Tail(list))

\* addParticipantsToCommunity(communityId, participants).
addParticipantsToCommunity(sender, c, list) ==
  IF c < communityCount /\ MayManage(sender, communities[c + 1])
  THEN LET after == AddEach(chain, c, list) IN
       /\ \A a \in Accounts : Len(after.userCommunities[a]) <= MaxEntries
       /\ Len(after.communities[c + 1].participantList) <= MaxEntries
       /\ chain' = [after EXCEPT
                      !.lastCall = Tx("addParticipantsToCommunity", sender, c, TRUE)]
       /\ UNCHANGED offChainVars
  ELSE Revert("addParticipantsToCommunity", sender, c)

\* removeParticipantFromCommunity(communityId, participant).
removeParticipantFromCommunity(sender, c, participant) ==
  IF /\ c < communityCount
     /\ MayManage(sender, communities[c + 1])
     /\ participant \in communities[c + 1].allowedParticipants
  THEN /\ chain' = [chain EXCEPT
                      !.communities[c + 1].allowedParticipants = @ \ {participant},
                      !.communities[c + 1].participantList = SwapAndPop(@, participant),
                      !.lastCall = Tx("removeParticipantFromCommunity", sender, c, TRUE)]
       /\ UNCHANGED offChainVars
  ELSE Revert("removeParticipantFromCommunity", sender, c)

\* hasAccess that looks at the community's own flags only.
hasAccessDirectOnly(c, participant, registered) ==
  participant \in communities[c + 1].allowedParticipants

\* hasAccess(communityId, participant), for a community that exists.
\* isRegisteredInLivepeer(addr) is a call to the Livepeer service registry:
\* registered is what that contract answers.
hasAccess(c, participant, registered) ==
  LET hasDirectAccess ==
        \/ participant \in communities[c + 1].allowedParticipants
        \/ participant \in globalAllowlist IN
  IF communityRequiresLivepeer[c + 1]
  THEN hasDirectAccess \/ registered
  ELSE hasDirectAccess

\* getCommunityParticipants(communityId).
getCommunityParticipants(c) == communities[c + 1].participantList

\* getCommunityInfo(communityId): owner, isActive, participantCount.
getCommunityInfo(c) ==
  [communityOwner |-> communities[c + 1].owner,
   isActive |-> communities[c + 1].isActive,
   participantCount |-> Len(communities[c + 1].participantList)]

\* getUserCommunities(user).
getUserCommunities(user) == userCommunities[user]

\* The onlyOwner modifier.
onlyOwner(sender) == sender = owner

\* addToGlobalAllowlist(participant).
addToGlobalAllowlist(sender, participant) ==
  IF onlyOwner(sender) /\ participant \notin globalAllowlist
  THEN /\ chain' = [chain EXCEPT
                      !.globalAllowlist = @ \cup {participant},
                      !.globalParticipants = Append(@, participant),
                      !.lastCall = Tx("addToGlobalAllowlist", sender, 0, TRUE)]
       /\ UNCHANGED offChainVars
  ELSE Revert("addToGlobalAllowlist", sender, 0)

\* removeFromGlobalAllowlist(participant).
removeFromGlobalAllowlist(sender, participant) ==
  IF onlyOwner(sender) /\ participant \in globalAllowlist
  THEN /\ chain' = [chain EXCEPT
                      !.globalAllowlist = @ \ {participant},
                      !.globalParticipants = SwapAndPop(@, participant),
                      !.lastCall = Tx("removeFromGlobalAllowlist", sender, 0, TRUE)]
       /\ UNCHANGED offChainVars
  ELSE Revert("removeFromGlobalAllowlist", sender, 0)

\* updateCommunity(communityId, name, description).
updateCommunity(sender, c, name) ==
  IF c < communityCount /\ sender = communities[c + 1].owner
  THEN /\ chain' = [chain EXCEPT
                      !.communities[c + 1].name = name,
                      !.lastCall = Tx("updateCommunity", sender, c, TRUE)]
       /\ UNCHANGED offChainVars
  ELSE Revert("updateCommunity", sender, c)

\* MeetingScheduler: meetings created, and the titles, times and durations
\* given.  A scheduled time is known by whether it lies after
\* block.timestamp.
MaxMeetings == 1

Titles == {"", "t1", "t2"}

Durations == {0, 30}

Statuses == {"Scheduled", "Live", "Ended", "Cancelled"}

\* MeetingScheduler.meetings; meetingCount is its length.
meetings == chain.meetings

meetingCount == Len(chain.meetings)

\* MeetingScheduler.communityMeetings, of the one community meetings are
\* created for, and hostMeetings.
communityMeetings == chain.communityMeetings

hostMeetings == chain.hostMeetings

\* createMeeting(communityId, title, description, scheduledTime, duration,
\* whipUrl, rtmpUrl): the host is its first participant.
createMeeting(sender, title, inFuture, duration) ==
  LET meetingId == meetingCount IN
  IF title # "" /\ inFuture /\ duration > 0
  THEN /\ meetingCount < MaxMeetings
       /\ chain' = [chain EXCEPT
                      !.meetings = Append(@, [title |-> title, duration |-> duration,
                                              host |-> sender, status |-> "Scheduled",
                                              participants |-> <<sender>>]),
                      !.communityMeetings = Append(@, meetingId),
                      !.hostMeetings[sender] = Append(@, meetingId),
                      !.lastCall = Tx("createMeeting", sender, meetingId, TRUE)]
       /\ UNCHANGED offChainVars
  ELSE Revert("createMeeting", sender, meetingId)

\* updateMeeting(meetingId, title, description, scheduledTime, duration,
\* whipUrl, rtmpUrl).
updateMeeting(sender, m, title, inFuture, duration) ==
  IF /\ m < meetingCount
     /\ sender = meetings[m + 1].host
     /\ meetings[m + 1].status = "Scheduled"
     /\ title # "" /\ inFuture
  THEN /\ chain' = [chain EXCEPT
                      !.meetings[m + 1].title = title,
                      !.meetings[m + 1].duration = duration,
                      !.lastCall = Tx("updateMeeting", sender, m, TRUE)]
       /\ UNCHANGED offChainVars
  ELSE Revert("updateMeeting", sender, m)

\* changeMeetingStatus(meetingId, newStatus).
changeMeetingStatus(sender, m, newStatus) ==
  IF m < meetingCount /\ sender = meetings[m + 1].host
  THEN /\ chain' = [chain EXCEPT
                      !.meetings[m + 1].status = newStatus,
                      !.lastCall = Tx("changeMeetingStatus", sender, m, TRUE)]
       /\ UNCHANGED offChainVars
  ELSE Revert("changeMeetingStatus", sender, m)

\* deleteMeeting(meetingId): the meeting is marked cancelled, by its host or
\* by the contract's owner.
deleteMeeting(sender, m) ==
  IF m < meetingCount /\ (sender = meetings[m + 1].host \/ sender = owner)
  THEN /\ chain' = [chain EXCEPT
                      !.meetings[m + 1].status = "Cancelled",
                      !.lastCall = Tx("deleteMeeting", sender, m, TRUE)]
       /\ UNCHANGED offChainVars
  ELSE Revert("deleteMeeting", sender, m)

\* joinMeeting(meetingId).
joinMeeting(sender, m) ==
  IF /\ m < meetingCount
     /\ meetings[m + 1].status \in {"Scheduled", "Live"}
     /\ \A i \in DOMAIN meetings[m + 1].participants :
          meetings[m + 1].participants[i] # sender
  THEN /\ chain' = [chain EXCEPT
                      !.meetings[m + 1].participants = Append(@, sender),
                      !.lastCall = Tx("joinMeeting", sender, m, TRUE)]
       /\ UNCHANGED offChainVars
  ELSE Revert("joinMeeting", sender, m)

\* ---------------------------------------------------------- specifications
\* The dedup keys: a sender and the timestamp of its record.
Keys == Ids \X (0 .. MaxPC + MaxOffers)

Init ==
  /\ phase = [p \in Ids |-> "idle"]
  /\ presence = [p \in Ids |-> -2]
  /\ held = [p \in Ids |-> [x \in Ids |-> -2]]
  /\ seenParticipants = [p \in Ids |-> {}]
  /\ heartbeatInterval = [p \in Ids |-> FALSE]
  /\ handlersSet = [p \in Ids |-> FALSE]
  /\ signalingService = [p \in Ids |-> FALSE]
  /\ offers = [p \in Ids |-> [x \in Ids |-> NoMsg]]
  /\ answers = [p \in Ids |-> [x \in Ids |-> NoMsg]]
  /\ ice = [p \in Ids |-> {}]
  /\ processedOffers = [p \in Ids |-> {}]
  /\ processedAnswers = [p \in Ids |-> {}]
  /\ processedCandidates = [p \in Ids |-> {}]
  /\ peerConnections = [p \in Ids |-> [x \in Ids |-> 0]]
  /\ pcs = [p \in Ids |-> <<>>]
  /\ tasks = {}
  /\ participants = [p \in Ids |-> {}]
  /\ closureParticipants = [p \in Ids |-> {}]
  /\ mixerSources = [p \in Ids |-> {}]
  /\ localCapture = [p \in Ids |-> FALSE]
  /\ cleanupLog = [p \in Ids |-> <<>>]
  /\ rosterEvent = [p \in Ids |-> [x \in Ids |-> "none"]]
  /\ offerCalls = [p \in Ids |-> [k \in Keys |-> 0]]
  /\ answerCalls = [p \in Ids |-> [k \in Keys |-> 0]]
  /\ offersSent = [p \in Ids |-> [x \in Ids |-> 0]]
  /\ uncaught = [p \in Ids |-> FALSE]
  /\ toast = [p \in Ids |-> "none"]
  /\ audio = NoAudio
  /\ chain = NoChain
  /\ ls = NoStore

\* One participant runs the program against a summarised one.
Local == {"A"}

Remotes == {"B"}

Next ==
  \/ \E p \in Local : Join(p)
  \/ \E p \in Local : JoinRefused(p)
  \/ \E p \in Local : JoinNoDevice(p)
  \/ Tick
  \/ \E p \in Local : cleanup(p)
  \/ \E p \in Remotes : Crash(p)
  \/ \E p \in Local, x \in Ids : DeliverPresence(p, x)
  \/ \E p \in Local, x \in Ids : ReplayPresence(p, x)
  \/ \E p \in Local, x \in Ids : DeliverOffer(p, x)
  \/ \E p \in Local, x \in Ids : DeliverAnswer(p, x)
  \/ \E p \in Local : DeliverIce(p)
  \/ \E t \in tasks : SettleCreateOffer(t)
  \/ \E t \in tasks : SettleSetLocalOffer(t)
  \/ \E t \in tasks : SettleSetRemoteOffer(t)
  \/ \E t \in tasks : SettleCreateAnswer(t)
  \/ \E t \in tasks : SettleSetLocalAnswer(t)
  \/ \E t \in tasks : SettleSetRemoteAnswer(t)
  \/ \E p \in Local : \E n \in 1 .. MaxPC : IceCandidate(p, n)
  \/ \E p \in Local, x \in Ids : Connect(p, x)
  \/ \E p \in Local, x \in Ids : ConnectionLost(p, x)
  \/ \E x \in Remotes : RemoteJoin(x)
  \/ \E x \in Remotes, p \in Local : RemoteOffer(x, p)
  \/ \E x \in Remotes, p \in Local : RemoteAnswer(x, p)
  \/ \E x \in Remotes, p \in Local : RemoteIce(x, p)
  \/ \E x \in Remotes : RemoteLeave(x)

Spec == Init /\ [][Next]_vars

\* Two participants run the program against each other, within one
\* heartbeat period.
Mesh == {"A", "B"}

MeshNext ==
  \/ \E p \in Mesh : Join(p)
  \/ \E p, x \in Mesh : DeliverPresence(p, x)
  \/ \E p, x \in Mesh : ReplayPresence(p, x)
  \/ \E p, x \in Mesh : DeliverOffer(p, x)
  \/ \E p, x \in Mesh : DeliverAnswer(p, x)
  \/ \E p \in Mesh : DeliverIce(p)
  \/ \E t \in tasks : SettleCreateOffer(t)
  \/ \E t \in tasks : SettleSetLocalOffer(t)
  \/ \E t \in tasks : SettleSetRemoteOffer(t)
  \/ \E t \in tasks : SettleCreateAnswer(t)
  \/ \E t \in tasks : SettleSetLocalAnswer(t)
  \/ \E t \in tasks : SettleSetRemoteAnswer(t)
  \/ \E p \in Mesh : \E n \in 1 .. MaxPC : IceCandidate(p, n)
  \/ \E p, x \in Mesh : Connect(p, x)
  \/ \E p, x \in Mesh : ConnectionLost(p, x)

MeshSpec == Init /\ [][MeshNext]_vars

\* One participant runs the program in a room of two summarised ones: one
\* that answers and may leave, one that offers and stays.
Answering == {"B"}

Offering == {"C"}

Guests == Answering \cup Offering

RoomNext ==
  \/ \E p \in Local : Join(p)
  \/ Tick
  \/ \E p \in Local : cleanup(p)
  \/ \E p \in Local, x \in Ids : DeliverPresence(p, x)
  \/ \E p \in Local, x \in Ids : ReplayPresence(p, x)
  \/ \E p \in Local, x \in Ids : DeliverOffer(p, x)
  \/ \E p \in Local, x \in Ids : DeliverAnswer(p, x)
  \/ \E t \in tasks : SettleCreateOffer(t)
  \/ \E t \in tasks : SettleSetLocalOffer(t)
  \/ \E t \in tasks : SettleSetRemoteOffer(t)
  \/ \E t \in tasks : SettleCreateAnswer(t)
  \/ \E t \in tasks : SettleSetLocalAnswer(t)
  \/ \E t \in tasks : SettleSetRemoteAnswer(t)
  \/ \E p \in Local, x \in Ids : Connect(p, x)
  \/ \E p \in Local, x \in Ids : ConnectionLost(p, x)
  \/ \E x \in Guests : RemoteJoin(x)
  \/ \E x \in Offering, p \in Local : RemoteOffer(x, p)
  \/ \E x \in Answering, p \in Local : RemoteAnswer(x, p)
  \/ \E x \in Answering : RemoteLeave(x)

RoomSpec == Init /\ [][RoomNext]_vars

\* One participant runs the program against a summarised one that also puts
\* malformed records, within one heartbeat period.
EnvelopeNext ==
  \/ \E p \in Local : Join(p)
  \/ \E x \in Remotes : RemoteJoin(x)
  \/ \E p \in Local, x \in Ids : DeliverPresence(p, x)
  \/ \E p \in Local, x \in Ids : DeliverOffer(p, x)
  \/ \E p \in Local, x \in Ids : DeliverAnswer(p, x)
  \/ \E p \in Local : DeliverIce(p)
  \/ \E t \in tasks : SettleCreateOffer(t)
  \/ \E t \in tasks : SettleSetLocalOffer(t)
  \/ \E t \in tasks : SettleSetRemoteOffer(t)
  \/ \E t \in tasks : SettleCreateAnswer(t)
  \/ \E t \in tasks : SettleSetLocalAnswer(t)
  \/ \E t \in tasks : SettleSetRemoteAnswer(t)
  \/ \E x \in Remotes, p \in Local : RemoteOffer(x, p)
  \/ \E x \in Remotes, p \in Local : RemoteAnswer(x, p)
  \/ \E x \in Remotes, p \in Local : RemoteIce(x, p)
  \/ \E x \in Remotes, p \in Local, shape \in Shapes : RemoteBadOffer(x, p, shape)
  \/ \E x \in Remotes, p \in Local, shape \in Shapes : RemoteBadAnswer(x, p, shape)
  \/ \E x \in Remotes, p \in Local, c \in {<<>>, <<"">>} : RemoteBadIce(x, p, c)

EnvelopeSpec == Init /\ [][EnvelopeNext]_vars

\* A mixer through its life: sources added and removed, cleanup, and
\* sources added again.
MixerNext ==
  \/ \E id \in MixerIds, stream \in Streams : addParticipant(id, stream)
  \/ \E id \in MixerIds : CallRemoveParticipant(id)
  \/ getMixedStream
  \/ audioMixerCleanup
  \/ \E c \in 1 .. MaxContexts : CloseSettles(c)

MixerSpec == Init /\ [][MixerNext]_vars

\* The gains and levels of one remote source of the mixer, added once, and
\* of the local capture of the audio service.
Remote == {"B"}

GainNext ==
  \/ \E id \in Remote : participantSources[id] = 0 /\ addParticipant(id, 1)
  \/ \E id \in Remote, v \in Volumes : setParticipantVolume(id, v)
  \/ \E id \in Remote, muted \in BOOLEAN : setParticipantMuted(id, muted)
  \/ \E id \in Remote, input \in Signals :
        getParticipantLevel(id, input, "getParticipantLevel")
  \/ \E id \in Remote, input \in Signals : isParticipantSpeaking(id, input)
  \/ \E id \in Local : captureAudio(id)
  \/ \E id \in Local, v \in Volumes : setStreamVolume(id, v)
  \/ \E id \in Local, muted \in BOOLEAN : setStreamMuted(id, muted)

GainSpec == Init /\ [][GainNext]_vars

\* One participant and the presence records of a room of two summarised
\* ones, over the heartbeat periods: records put, aged, delivered to the
\* participant's replica and fired again, its own included.
PresenceNext ==
  \/ \E p \in Local : Join(p)
  \/ Tick
  \/ \E p \in Local : cleanup(p)
  \/ \E x \in Guests : Crash(x)
  \/ \E p \in Local, x \in Ids : DeliverPresence(p, x)
  \/ \E p \in Local, x \in Ids : ReplayPresence(p, x)
  \/ \E x \in Guests : RemoteJoin(x)
  \/ \E x \in Guests : RemoteLeave(x)

PresenceSpec == Init /\ [][PresenceNext]_vars

\* CommunityAccess under transactions of any of the accounts: communities
\* created and renamed, one address added to them and put on the global
\* allowlist.
Invitees == {"V"}

AccessNext ==
  \/ \E a \in Accounts, name \in Names, livepeer \in BOOLEAN :
        createCommunity(a, name, livepeer)
  \/ \E a \in Accounts, c \in 0 .. MaxCommunities, x \in Invitees :
        addParticipantToCommunity(a, c, x)
  \/ \E a \in Accounts, c \in 0 .. MaxCommunities, name \in Names :
        updateCommunity(a, c, name)
  \/ \E a \in Accounts, x \in Invitees : addToGlobalAllowlist(a, x)
  \/ \E a \in Accounts, x \in Invitees : removeFromGlobalAllowlist(a, x)

AccessSpec == Init /\ [][AccessNext]_vars

\* CommunityAccess under transactions of its owner: communities with and
\* without the Livepeer requirement, one address added to and removed from
\* them and the global allowlist.
AllowlistNext ==
  \/ \E name \in Names, livepeer \in BOOLEAN :
        createCommunity(Deployer, name, livepeer)
  \/ \E c \in 0 .. MaxCommunities, x \in Invitees :
        addParticipantToCommunity(Deployer, c, x)
  \/ \E c \in 0 .. MaxCommunities, x \in Invitees :
        removeParticipantFromCommunity(Deployer, c, x)
  \/ \E x \in Invitees : addToGlobalAllowlist(Deployer, x)
  \/ \E x \in Invitees : removeFromGlobalAllowlist(Deployer, x)

AllowlistSpec == Init /\ [][AllowlistNext]_vars

\* CommunityAccess under transactions of its owner: two addresses added to
\* its communities, one by one and in batches, and removed.
Members == {"U", "V"}

MembershipNext ==
  \/ \E name \in {"n1"} : createCommunity(Deployer, name, FALSE)
  \/ \E c \in 0 .. MaxCommunities, x \in Members :
        addParticipantToCommunity(Deployer, c, x)
  \/ \E c \in 0 .. MaxCommunities, list \in Batches :
        addParticipantsToCommunity(Deployer, c, list)
  \/ \E c \in 0 .. MaxCommunities, x \in Members :
        removeParticipantFromCommunity(Deployer, c, x)

MembershipSpec == Init /\ [][MembershipNext]_vars

\* MeetingScheduler under transactions of any of the accounts.
SchedulerNext ==
  \/ \E a \in Accounts, title \in Titles, inFuture \in BOOLEAN, d \in Durations :
        createMeeting(a, title, inFuture, d)
  \/ \E a \in Accounts, m \in 0 .. MaxMeetings, title \in Titles,
        inFuture \in BOOLEAN, d \in Durations :
        updateMeeting(a, m, title, inFuture, d)
  \/ \E a \in Accounts, m \in 0 .. MaxMeetings, status \in Statuses :
        changeMeetingStatus(a, m, status)
  \/ \E a \in Accounts, m \in 0 .. MaxMeetings : deleteMeeting(a, m)
  \/ \E a \in Accounts, m \in 0 .. MaxMeetings : joinMeeting(a, m)

SchedulerSpec == Init /\ [][SchedulerNext]_vars

\* LocalStorageSignalingService polling the signaling keys the others write.
PollingNext ==
  \/ LsConnect
  \/ Poll
  \/ Advance
  \/ \E record \in Records : handleStorageChange(record)
  \/ \E x \in Others : LsSendOffer(x)
  \/ \E x \in {"B"} : LsSendAnswer(x)
  \/ \E x \in {"B"} : LsSendIceCandidate(x)

PollingSpec == Init /\ [][PollingNext]_vars

\* The same, the interval firing again and again.
PollingFair == PollingSpec /\ WF_vars(Poll)

\* LocalStorageSignalingService polling the participants key.
InactiveNext ==
  \/ LsConnect
  \/ Poll
  \/ LsAge
  \/ \E x \in Others, sameWindow \in BOOLEAN : LsRemoteConnect(x, sameWindow)
  \/ \E x \in Others : LsRemoteHeartbeat(x)
  \/ \E x \in Others : LsRemoteGone(x)
  \/ \E x \in Others : LsRemoteDisconnect(x)

InactiveSpec == Init /\ [][InactiveNext]_vars

\* AudioService capturing and removing by key, and the mute button.
CaptureNext ==
  \/ \E deviceId \in Devices : captureDevice(deviceId)
  \/ \E id \in StreamKeys : removeStream(id)
  \/ handleMuteToggle

CaptureSpec == Init /\ [][CaptureNext]_vars

\* ------------------------------------------------------------------ claims
\* The first connection each of a and b constructed is for the other and was
\* made by its participant-joined handler: each got the other's
\* participant-joined notification before it had handled any offer.
GlareCase(a, b) ==
  /\ peerConnections[a][b] = 1 /\ pcs[a][1].initiator
  /\ peerConnections[b][a] = 1 /\ pcs[b][1].initiator

\* C1: when two participants with ids a < b each get the other's
\* participant-joined notification before either has received an offer from
\* the other, b sends no offer to a and a sends at most one to b.
C1_GlareSingleOffer ==
  \A a, b \in Mesh :
    Rank(a) < Rank(b) /\ GlareCase(a, b) =>
      offersSent[b][a] = 0 /\ offersSent[a][b] <= 1

\* The connections of p for x that are not closed.
OpenFor(p, x) ==
  {n \in DOMAIN pcs[p] : IsOpen(pcs[p][n]) /\ pcs[p][n].remote = x}

\* The promises of p's connection n that lead to an offer being sent.
OfferTasks(p, n) ==
  {t \in tasks : t.p = p /\ t.n = n /\ t.op \in {"createOffer", "setLocalOffer"}}

\* C2: of the connections a participant has for one remote id at most one is
\* open, and it is the one its map holds; a connection made for an incoming
\* offer, which a later participant-joined notification finds in the map,
\* never builds or holds an offer of its own.
C2_OneConnectionPerRemote ==
  \A p \in Local, x \in Ids :
    /\ OpenFor(p, x) \subseteq {peerConnections[p][x]}
    /\ \A n \in OpenFor(p, x) :
         ~pcs[p][n].initiator =>
           OfferTasks(p, n) = {} /\ pcs[p][n].localDescription.type # "offer"

\* C2's case: the only connection p ever made was made for x's offer, and
\* p's participant-joined handler has run for x since.
C2_JoinedWithConnection ==
  \E p \in Local, x \in Ids :
    /\ Len(pcs[p]) = 1 /\ peerConnections[p][x] = 1
    /\ ~pcs[p][1].initiator
    /\ rosterEvent[p][x] = "joined"

\* C3: however often the graph delivers an offer or answer record (one
\* sender, one timestamp), the callback has run for it exactly once if it was
\* delivered at all, and never otherwise.
C3_CallbackOncePerRecord ==
  \A p \in Local, k \in Keys :
    /\ offerCalls[p][k] = IF k \in processedOffers[p] THEN 1 ELSE 0
    /\ answerCalls[p][k] = IF k \in processedAnswers[p] THEN 1 ELSE 0

\* C3's case: an offer and an answer were handled to the end, and both
\* records are still in the graph, which delivers them again whenever the
\* listener fires.
C3_HandledRecordsStillStored ==
  \E p \in Local, x \in Ids :
    /\ offers[p][x] # NoMsg
    /\ <<x, offers[p][x].timestamp>> \in processedOffers[p]
    /\ answers[p][x] # NoMsg
    /\ <<x, answers[p][x].timestamp>> \in processedAnswers[p]
    /\ peerConnections[p][x] # 0
    /\ pcs[p][peerConnections[p][x]].remoteDescription = offers[p][x].sdp
    /\ {t \in tasks : t.p = p} = {}

\* C4: once a connection holds a remote description, every candidate that
\* arrived for it has been applied to it, in the order of arrival.
C4_EarlyCandidatesApplied ==
  \A p \in Local, x \in Ids :
    LET n == peerConnections[p][x] IN
    n # 0 /\ pcs[p][n].remoteDescription # NoSdp =>
      pcs[p][n].applied = pcs[p][n].arrived

\* Nothing more is due at p about the presence of x: x has stopped, its last
\* record no longer counts as active, p's replica holds it, and p has no
\* promise pending.
PresenceSettled(p, x) ==
  /\ phase[p] = "joined"
  /\ phase[x] \in {"crashed", "gone"}
  /\ ~IsActive(presence[x]) \/ presence[x] = -1
  /\ held[p][x] = presence[x]
  /\ {t \in tasks : t.p = p} = {}

\* C5: once a participant has stopped heartbeating and nothing more is due
\* about it, every other participant has fired participant-left for it,
\* dropped it from its roster and released its connection and mixer source.
C5_StoppedPeerReleased ==
  \A p \in Local, x \in Remotes :
    PresenceSettled(p, x) =>
      /\ x \notin seenParticipants[p]
      /\ x \notin participants[p]
      /\ peerConnections[p][x] = 0
      /\ x \notin mixerSources[p]

\* C6: for each remote id the participant-joined and participant-left events
\* alternate, the first being a join.
C6_JoinLeaveAlternate ==
  \A p \in Local, x \in Ids : rosterEvent[p][x] # "bad"

\* C6's case: p sent x two offers, each from a connection made by a join
\* event, and the last event for x is a join: a join, a leave and a join.
C6_JoinedAgain ==
  \E p \in Local, x \in Ids :
    offersSent[p][x] = 2 /\ rosterEvent[p][x] = "joined"

\* C7: while the session runs, a peer whose connection is no longer in the
\* map has been reported to the session as left, and has no source in the
\* mixer.
C7_RemovalNotifiesSession ==
  \A p \in Local, x \in Ids :
    x # p /\ phase[p] = "joined" /\ peerConnections[p][x] = 0 =>
      rosterEvent[p][x] # "joined" /\ x \notin mixerSources[p]

\* What the session of p holds besides its connections.
SessionOf(p) ==
  <<phase[p], localCapture[p], signalingService[p], heartbeatInterval[p],
    handlersSet[p], presence[p]>>

\* C8: a step of the running session that removes the connection for x from
\* the map leaves the map entry and the connection of every other peer, the
\* captured stream and the signaling session as they were.
C8_RemovalIsolated ==
  [][\A p \in Local, x \in Ids :
       /\ phase[p] = "joined" /\ phase'[p] = "joined"
       /\ peerConnections[p][x] # 0 /\ peerConnections'[p][x] = 0
       => /\ \A y \in Ids \ {x} :
               /\ peerConnections'[p][y] = peerConnections[p][y]
               /\ peerConnections[p][y] # 0 =>
                    pcs'[p][peerConnections[p][y]] = pcs[p][peerConnections[p][y]]
          /\ SessionOf(p)' = SessionOf(p)]_vars

\* C8's case: the connection p made second was removed while the one it made
\* first, for another peer, stays open in the map.
C8_RemovedBesideOpen ==
  \E p \in Local, x, y \in Ids :
    /\ x # y /\ phase[p] = "joined" /\ localCapture[p]
    /\ Len(pcs[p]) = 2
    /\ pcs[p][2].remote = x /\ ~IsOpen(pcs[p][2]) /\ peerConnections[p][x] = 0
    /\ pcs[p][1].remote = y /\ peerConnections[p][y] = 1
    /\ pcs[p][1].connectionState = "connected"

\* The place of a step in a cleanup log; 0 if it did not run.
Pos(log, step) ==
  IF \E i \in DOMAIN log : log[i] = step
  THEN CHOOSE i \in DOMAIN log : log[i] = step
  ELSE 0

\* C9: a cleanup that ran stopped the heartbeat first, then closed the
\* connections, then released the mixer's sources and the captured stream,
\* then removed the subscription, skipping none.
C9_CleanupOrder ==
  \A p \in Local :
    cleanupLog[p] # <<>> =>
      LET at(step) == Pos(cleanupLog[p], step) IN
      /\ 0 < at("heartbeat")
      /\ at("heartbeat") < at("connections")
      /\ at("connections") < at("mixer")
      /\ at("connections") < at("capture")
      /\ at("mixer") < at("unsubscribe")
      /\ at("capture") < at("unsubscribe")

\* No event is pending in the mesh, and no transport was ever lost: both
\* participants are in, no connection was closed, each replica holds the
\* other's presence record, every record of the graph has been handled,
\* every promise has settled, every connection has gathered its candidates
\* and no transport is about to come up.
Steady ==
  /\ \A p \in Mesh : phase[p] = "joined"
  /\ \A p \in Mesh : \A n \in DOMAIN pcs[p] : IsOpen(pcs[p][n])
  /\ tasks = {}
  /\ \A p, x \in Mesh :
       p # x =>
         /\ held[p][x] = presence[x]
         /\ offers[p][x] # NoMsg => <<x, offers[p][x].timestamp>> \in processedOffers[p]
         /\ answers[p][x] # NoMsg => <<x, answers[p][x].timestamp>> \in processedAnswers[p]
         /\ \A m \in ice[p] : m.id \in processedCandidates[p]
         /\ LET n == peerConnections[p][x] IN
            n # 0 =>
              /\ pcs[p][n].localDescription # NoSdp =>
                   Cardinality(SentCandidates(p, x)) = MaxCand
              /\ ~(Paired(pcs[p][n]) /\ PeerAgrees(p, n, x)
                     /\ pcs[p][n].connectionState # "connected")

\* C10: once no event is pending after the joins, each participant holds one
\* connection for each other participant present, and it is connected.
C10_SteadyMeshConnected ==
  Steady =>
    \A p, x \in Mesh :
      p # x =>
        /\ peerConnections[p][x] # 0
        /\ pcs[p][peerConnections[p][x]].connectionState = "connected"

\* The paths built for id that still have a node connected.
LivePaths(id) ==
  {n \in DOMAIN graph :
     graph[n].id = id /\ (graph[n].sourceOut \/ graph[n].gainOut)}

\* C11: after addParticipant(id, stream), whatever was added for id before,
\* exactly one path built for id is connected: the one the three maps hold,
\* built on the stream just given and feeding the mixer's destination; the
\* nodes of every earlier path for id are disconnected.
C11_OnePathPerId ==
  \A id \in MixerIds :
    /\ Cardinality(LivePaths(id)) <= 1
    /\ lastOp.op = "addParticipant" /\ lastOp.id = id =>
         LET n == participantSources[id] IN
         /\ n # 0 /\ participantGains[id] = n /\ participantAnalysers[id] = n
         /\ LivePaths(id) = {n}
         /\ graph[n].stream = lastOp.arg
         /\ graph[n].sourceOut /\ graph[n].gainOut
         /\ graph[n].ctx = destinationNode

\* C11's case: the only two paths ever built are for one id, on two
\* different streams, the second just added, and no cleanup has run.
C11_AddedTwice ==
  /\ Len(graph) = 2 /\ ~cleaned
  /\ graph[1].id = graph[2].id /\ graph[1].stream # graph[2].stream
  /\ lastOp.op = "addParticipant" /\ lastOp.id = graph[2].id
  /\ participantSources[graph[2].id] = 2

\* C12: after setParticipantVolume(id, v), setParticipantMuted(id, true) and
\* setParticipantMuted(id, false), in that order with no other change to the
\* mixer between them, the gain of id is the clamped v again.
C12_UnmuteRestoresVolume ==
  muteTrip.stage = 3 =>
    /\ participantGains[muteTrip.id] # 0
    /\ graph[participantGains[muteTrip.id]].value = muteTrip.gain

\* C13: every gain of the audio service is within [0, 1] and every gain of
\* the mixer within [0, 2]; right after setStreamVolume(id, v) the gain of id
\* is min(max(v, 0), 1), and right after setParticipantVolume(id, v) it is
\* min(max(v, 0), 2).
C13_GainsClamped ==
  /\ \A id \in MixerIds :
       gainNodes[id] # -1 => gainNodes[id] \in 0 .. LocalMax
  /\ \A n \in DOMAIN graph : graph[n].value \in 0 .. RemoteMax
  /\ lastOp.op = "setStreamVolume" /\ gainNodes[lastOp.id] # -1 =>
       gainNodes[lastOp.id] = Min(Max(lastOp.arg, 0), LocalMax)
  /\ lastOp.op = "setParticipantVolume" /\ participantGains[lastOp.id] # 0 =>
       graph[participantGains[lastOp.id]].value = Min(Max(lastOp.arg, 0), RemoteMax)

\* C13's case: the remote source was asked for a volume above 2 and the
\* local one, just now, for a volume above 1; both sit at the top of their
\* ranges.
C13_BothAskedAboveRange ==
  \E id \in Local, x \in Remote :
    /\ lastOp.op = "setStreamVolume" /\ lastOp.id = id /\ lastOp.arg > LocalMax
    /\ gainNodes[id] = LocalMax
    /\ participantGains[x] # 0
    /\ graph[participantGains[x]].value = RemoteMax

\* C14: getMixedStream() never returns null.
C14_MixedStreamNeverNull ==
  lastOp.op = "getMixedStream" => lastOp.result # 0

\* C15: a level read right after setParticipantMuted(id, true) is 0, and the
\* speaking test on it is false, whatever the stream carries.
C15_MutedLevelZero ==
  lastOp.op \in {"getParticipantLevel", "isParticipantSpeaking"} /\ lastOp.first =>
    lastOp.result = 0 /\ ~IsSpeaking(lastOp.result)

\* The contexts of the mixer that are open.
OpenContexts == {c \in DOMAIN contexts : IsOpenContext(c)}

\* C16: at most one context of the mixer is open at a time, none is open
\* right after cleanup, and right after an addParticipant that follows a
\* cleanup the mixed stream is the destination stream of an open context, the
\* mixer's current one.
C16_OneOpenContext ==
  /\ Cardinality(OpenContexts) <= 1
  /\ lastOp.op = "cleanup" => OpenContexts = {}
  /\ cleaned /\ lastOp.op = "addParticipant" =>
       /\ mixedStream # 0 /\ mixedStream = audioContext
       /\ mixedStream = destinationNode
       /\ IsOpenContext(mixedStream)

\* C17: when two participants join within one heartbeat period and no event
\* is pending any more, each holds a connected connection for the other and
\* its mixer holds two sources, its own capture and the other's stream.
C17_BothConnectedTwoSources ==
  Steady =>
    \A p, x \in Mesh :
      p # x =>
        /\ peerConnections[p][x] # 0
        /\ pcs[p][peerConnections[p][x]].connectionState = "connected"
        /\ mixerSources[p] = {p, x}

\* C18: a connection that enters the map is one constructed in that step,
\* open and for that remote id; the map never holds a closed connection; a
\* closed connection never changes again, and no operation is started on one.
C18_RejoinUsesNewConnection ==
  [][\A p \in Local, x \in Ids :
       LET n == peerConnections'[p][x] IN
       /\ n # 0 /\ n # peerConnections[p][x] =>
            /\ n = Len(pcs[p]) + 1 /\ Len(pcs'[p]) = n
            /\ pcs'[p][n].remote = x
       /\ n # 0 => IsOpen(pcs'[p][n])
       /\ \A k \in DOMAIN pcs[p] :
            ~IsOpen(pcs[p][k]) => pcs'[p][k] = pcs[p][k]
       /\ \A t \in tasks' \ tasks : IsOpen(pcs'[t.p][t.n])]_vars

\* C18's case: the connection p made first, for x, was closed when x
\* departed; x joined again, and the connection of the map is the second
\* one, connected.
C18_RejoinedOnNewConnection ==
  \E p \in Local, x \in Ids :
    /\ Len(pcs[p]) = 2
    /\ pcs[p][1].remote = x /\ ~IsOpen(pcs[p][1])
    /\ peerConnections[p][x] = 2
    /\ pcs[p][2].connectionState = "connected"
    /\ rosterEvent[p][x] = "joined"

\* The callback of p ran in this step for the record x put last.
OfferReceived(p, x) ==
  offerCalls'[p][<<x, offers[p][x].timestamp>>]
    # offerCalls[p][<<x, offers[p][x].timestamp>>]

AnswerReceived(p, x) ==
  answerCalls'[p][<<x, answers[p][x].timestamp>>]
    # answerCalls[p][<<x, answers[p][x].timestamp>>]

\* A description that lacks its type or its sdp; a candidate whose payload is
\* missing or empty.
LacksTypeOrSdp(sdp) == sdp.type \in {"", "none"} \/ sdp.by = NoPC

EmptyCandidate(candidate) == candidate \in {<<>>, <<"">>}

\* The step made, changed or started no connection, put nothing into the
\* graph and left no rejection uncaught.
NothingDone ==
  UNCHANGED <<peerConnections, pcs, tasks, offers, answers, ice, offersSent,
              uncaught, mixerSources>>

\* C19: a step in which a malformed offer or answer is received changes no
\* connection, starts nothing, sends nothing and raises no error; no
\* operation is ever started on a malformed description, no empty candidate
\* ever reaches a connection, and a connection is only made in a
\* participant-joined step or on receipt of a well-formed offer.
C19_MalformedDropped ==
  [][\A p \in Local :
       /\ \A x \in Ids :
            /\ OfferReceived(p, x) /\ LacksTypeOrSdp(offers[p][x].sdp)
                 => NothingDone
            /\ AnswerReceived(p, x) /\ LacksTypeOrSdp(answers[p][x].sdp)
                 => NothingDone
       /\ \A t \in tasks' \ tasks :
            t.op \in {"setRemoteOffer", "setRemoteAnswer"}
              => ~LacksTypeOrSdp(t.sdp)
       /\ \A n \in DOMAIN pcs'[p] :
            \A i \in DOMAIN pcs'[p][n].arrived :
              ~EmptyCandidate(pcs'[p][n].arrived[i])
       /\ Len(pcs'[p]) > Len(pcs[p]) =>
            \/ rosterEvent'[p] # rosterEvent[p]
            \/ \E x \in Ids :
                 OfferReceived(p, x) /\ ~LacksTypeOrSdp(offers[p][x].sdp)
       /\ processedCandidates'[p] # processedCandidates[p] =>
            \A m \in ice[p] :
              m.id \in processedCandidates'[p] => ~EmptyCandidate(m.candidate)]_vars

\* C19's case: an offer without a type went past the listener to the
\* handler, an empty candidate is stored for p, and p has no connection,
\* nothing pending and no uncaught rejection.
C19_MalformedReceived ==
  \E p \in Local, x \in Ids :
    /\ offers[p][x] # NoMsg /\ offers[p][x].sdp.type = ""
    /\ <<x, offers[p][x].timestamp>> \in processedOffers[p]
    /\ \E m \in ice[p] : EmptyCandidate(m.candidate)
    /\ pcs[p] = <<>> /\ tasks = {} /\ ~uncaught[p]

\* C20: a join attempt that failed for want of the microphone has shown an
\* error, and has announced no presence and opened neither the signaling
\* service nor a connection.
C20_FailedJoinShowsError ==
  \A p \in Local :
    phase[p] = "failed" =>
      /\ toast[p] = "error"
      /\ presence[p] = -2 /\ ~heartbeatInterval[p]
      /\ ~signalingService[p] /\ ~handlersSet[p]
      /\ pcs[p] = <<>>

\* C21: no participant-joined or participant-left event is ever fired for
\* the participant's own id, whatever records its replica delivers or fires
\* again, its own heartbeats included: it is never in its own seen set, has
\* no connection for itself, and while it is in the meeting its roster lists
\* it (the store keeps one entry per address).
C21_NoEventForOwnId ==
  \A p \in Local :
    /\ rosterEvent[p][p] = "none"
    /\ p \notin seenParticipants[p]
    /\ peerConnections[p][p] = 0
    /\ \A n \in DOMAIN pcs[p] : pcs[p][n].remote # p
    /\ phase[p] = "joined" => p \in participants[p]

\* C21's case: p is in the meeting, its replica holds its own record renewed
\* by a heartbeat (a guest's record has aged since p received it), and an
\* event has fired for that guest.
C21_OwnHeartbeatEchoed ==
  \E p \in Local, x \in Guests :
    /\ phase[p] = "joined" /\ Held(p, p) = 0
    /\ held[p][x] > 0 /\ rosterEvent[p][x] = "joined"
    /\ participants[p] = {p, x}

\* C22: a join event fires for x only on a record of x whose lastSeen is
\* less than 30 seconds old: a record of 30 seconds or more, first
\* delivered or fired again, puts x into no seen set and creates no
\* connection for x.
C22_StaleRecordNoJoin ==
  [][\A p \in Local, x \in Ids :
       \/ held'[p][x] \in 0 .. ActiveWindow - 1
       \/ /\ x \in seenParticipants'[p] => x \in seenParticipants[p]
          /\ rosterEvent'[p][x] \in {rosterEvent[p][x], "left"}
          /\ \A n \in DOMAIN pcs'[p] \ DOMAIN pcs[p] : pcs'[p][n].remote # x]_vars

\* C22's case: p has subscribed, its replica was given a record of x that
\* was already 30 seconds old, and no event has fired for x.
C22_HistoricalRecordDelivered ==
  \E p \in Local, x \in Guests :
    /\ phase[p] = "joined" /\ handlersSet[p]
    /\ held[p][x] = ActiveWindow
    /\ rosterEvent[p][x] = "none" /\ x \notin seenParticipants[p]
    /\ pcs[p] = <<>>

\* C23: once p has disconnected, its heartbeat is stopped and the store
\* holds no leave record of p: what it holds at p's presence key is the
\* record of p's last heartbeat, which only grows older.
C23_NoWriteAfterDisconnect ==
  \A p \in Local :
    phase[p] = "left" =>
      /\ ~heartbeatInterval[p]
      /\ presence[p] \in 0 .. ActiveWindow

\* C24: no promise of handleOffer, handleAnswer or createPeerConnection
\* rejects with nobody catching it.
C24_NoUncaughtError ==
  \A p \in Mesh : ~uncaught[p]

\* C25: a createCommunity that goes through leaves, at the new id, a
\* community owned by the caller, active, with the caller as its only
\* participant: one listed and flagged address, a participant count of 1,
\* and hasAccess(id, caller) true.
C25_CreatorOwnsAndJoins ==
  [][communityCount' = communityCount + 1 =>
       \E id \in 0 .. MaxCommunities, caller \in Accounts :
         /\ id = communityCount
         /\ lastCall' = Tx("createCommunity", caller, id, TRUE)
         /\ getCommunityInfo(id)' =
              [communityOwner |-> caller, isActive |-> TRUE, participantCount |-> 1]
         /\ getCommunityParticipants(id)' = <<caller>>
         /\ communities'[id + 1].allowedParticipants = {caller}
         /\ hasAccess(id, caller, FALSE)']_vars

\* C25's case: an account other than the deployer has just created the
\* second community.
C25_SecondCommunityCreated ==
  /\ lastCall = Tx("createCommunity", "U", 1, TRUE)
  /\ communityCount = 2
  /\ communities[2].owner = "U"

\* The addresses a list holds.
Listed(list) == {list[i] : i \in DOMAIN list}

\* C26: for a community without the Livepeer requirement, hasAccess(c, p)
\* is true exactly when p is among the community's participants or among
\* the global participants, as the lists returned for them stand, whatever
\* the Livepeer registry would answer.
C26_AccessIsDirectOrGlobal ==
  \A c \in 0 .. communityCount - 1, p \in Accounts, registered \in BOOLEAN :
    ~communityRequiresLivepeer[c + 1] =>
      (hasAccess(c, p, registered) <=>
         \/ p \in Listed(getCommunityParticipants(c))
         \/ p \in Listed(globalParticipants))

\* C26's case: an address on the global allowlist has just been removed
\* from a community without the Livepeer requirement, and still has access
\* to it, while the community's creator has access as its participant.
C26_RemovedButGloballyAllowed ==
  \E c \in 0 .. communityCount - 1 :
    /\ ~communityRequiresLivepeer[c + 1]
    /\ lastCall = Tx("removeParticipantFromCommunity", Deployer, c, TRUE)
    /\ "V" \notin communities[c + 1].allowedParticipants
    /\ "V" \in globalAllowlist
    /\ hasAccess(c, "V", FALSE) /\ hasAccess(c, Deployer, FALSE)
    /\ ~hasAccess(c, "U", TRUE)

\* The storage of both contracts.
Storage(store) == [store EXCEPT !.lastCall = Tx("", "", 0, TRUE)]

\* C27: a participant is added to a community only by a transaction of the
\* community's owner or of the contract's owner, a community's name changes
\* only by a transaction of the community's owner, the global allowlist
\* changes only by a transaction of the contract's owner, and a transaction
\* that is rejected leaves the whole storage as it was.
C27_OnlyOwnersChange ==
  [][/\ \A c \in 0 .. communityCount - 1 :
          /\ communities'[c + 1].participantList # communities[c + 1].participantList
               => lastCall'.sender \in {communities[c + 1].owner, Deployer}
          /\ communities'[c + 1].name # communities[c + 1].name
               => lastCall'.sender = communities[c + 1].owner
     /\ (globalAllowlist' # globalAllowlist \/ globalParticipants' # globalParticipants)
          => lastCall'.sender = Deployer
     /\ ~lastCall'.ok => Storage(chain') = Storage(chain)
     /\ \A c \in 0 .. communityCount - 1 :
          /\ lastCall'.fn = "addParticipantToCommunity" /\ lastCall'.id = c
          /\ lastCall'.sender \notin {communities[c + 1].owner, Deployer}
          => ~lastCall'.ok]_vars

\* C27's case: an account that neither owns the community nor the contract
\* asked to add an address the community does not have, and was rejected.
C27_StrangerRejected ==
  \E c \in 0 .. communityCount - 1 :
    /\ lastCall = Tx("addParticipantToCommunity", "V", c, FALSE)
    /\ communities[c + 1].owner = "U"
    /\ "V" \notin communities[c + 1].allowedParticipants

\* C28: getCommunityParticipants(c) holds no address twice, and holds
\* exactly the addresses whose allowedParticipants flag in c is true.
C28_ListMatchesFlags ==
  \A c \in 0 .. communityCount - 1 :
    LET list == getCommunityParticipants(c) IN
    /\ \A i, j \in DOMAIN list : list[i] = list[j] => i = j
    /\ Listed(list) = communities[c + 1].allowedParticipants

\* C28's case: a batch has just gone through for a community that was
\* given the same address twice, and an address of the other community has
\* been removed from the middle of its list.
C28_BatchAndRemovalDone ==
  /\ communityCount = 2
  /\ lastCall = Tx("addParticipantsToCommunity", Deployer, 0, TRUE)
  /\ getCommunityParticipants(0) = <<Deployer, "V">>
  /\ getCommunityParticipants(1) = <<Deployer, "V">>
  /\ getUserCommunities("U") = <<1>>
  /\ getUserCommunities("V") = <<1, 0>>

\* C29: getUserCommunities(u) holds no community twice, and holds exactly
\* the communities in which u's allowedParticipants flag is true.
C29_UserCommunitiesCurrent ==
  \A u \in Accounts :
    LET list == getUserCommunities(u) IN
    /\ \A i, j \in DOMAIN list : list[i] = list[j] => i = j
    /\ Listed(list) =
         {c \in 0 .. communityCount - 1 : u \in communities[c + 1].allowedParticipants}

\* C30: a meeting's status, title or duration changes only by a
\* transaction of the meeting's host, and a transaction on a meeting from
\* any other address is rejected and leaves the meeting as it was.
C30_HostOnlyChanges ==
  [][\A m \in 0 .. meetingCount - 1 :
       /\ (\/ meetings'[m + 1].status # meetings[m + 1].status
           \/ meetings'[m + 1].title # meetings[m + 1].title
           \/ meetings'[m + 1].duration # meetings[m + 1].duration)
            => lastCall'.sender = meetings[m + 1].host
       /\ (/\ chain' # chain
           /\ lastCall'.fn \in {"updateMeeting", "changeMeetingStatus", "deleteMeeting"}
           /\ lastCall'.id = m
           /\ lastCall'.sender # meetings[m + 1].host)
            => ~lastCall'.ok /\ meetings'[m + 1] = meetings[m + 1]]_vars

\* C31: once the participant-left callback of p has run for x, the store of
\* p lists x no more and the mixer of p holds no source of x.
C31_DepartedLeavesNothing ==
  \A p \in Local, x \in Ids :
    rosterEvent[p][x] = "left" =>
      x \notin participants[p] /\ x \notin mixerSources[p]

\* The calls a counter has counted for a record.
Calls(counter, record) == IF record \in DOMAIN counter THEN counter[record] ELSE 0

\* Whether a record is what its key holds.
IsStored(record) ==
  \E list \in {ls.lsOffers, ls.lsAnswers, ls.lsIce} :
    \E i \in DOMAIN list : list[i] = record

\* C32: a record another participant stores for Me once Me has connected
\* is, sooner or later, handed to its callback by the polling loop, unless
\* its sender has replaced it by then.
C32_StoredIsPolled ==
  \A record \in Records :
    (record \in ls.events /\ IsStored(record))
      ~> (Calls(ls.handed, record) > 0 \/ ~IsStored(record))

C34_LeftOncePerDeparture ==
  \A x \in Others :
    /\ ls.leftCalls[x] <= ls.departures[x]
    /\ ls.leftCalls[x] > 0 => ls.joinedCalls[x] > 0

\* C39: every candidate x has sent to Me is held by the ice key, each under
\* a candidate id of its own.
C39_CandidatesKeptApart ==
  \A x \in Others : \A n \in 1 .. ls.sentIce[x] :
    \E i \in DOMAIN ls.lsIce :
      /\ ls.lsIce[i].from = x /\ ls.lsIce[i].payload = n
      /\ \A j \in DOMAIN ls.lsIce : ls.lsIce[j].id = ls.lsIce[i].id => j = i

\* C35: the store's isMuted says whether the audio tracks of the captured
\* streams still live are disabled.
C35_MutedMeansDisabled ==
  \A n \in DOMAIN capture.streams :
    ~capture.streams[n].stopped => (isMuted <=> ~capture.streams[n].enabled)

\* C38: every stream not stopped is the one mediaStreams holds under its
\* device id, and every gain node connected to the destination is the one
\* gainNodes holds under its id.
C38_LiveIsRecorded ==
  /\ \A n \in DOMAIN capture.streams :
       ~capture.streams[n].stopped =>
         capture.streamOf[capture.streams[n].deviceId] = n
  /\ \A n \in DOMAIN capture.gains :
       capture.gains[n].connected => capture.gainOf[capture.gains[n].id] = n

\* C36: once WebRTCService.cleanup of p has run, the map of p holds no
\* connection.
C36_MapEmptyAfterCleanup ==
  \A p \in Local :
    phase[p] = "left" => \A x \in Ids : peerConnections[p][x] = 0

\* C37: whenever p writes an offer for x, it does so on the settling of
\* setLocalDescription on the connection the map of p holds for x at that
\* moment.
C37_OfferOnlyForHeldConnection ==
  [][\A p \in Local, x \in Ids :
       offers'[x][p] # offers[x][p] =>
         \E t \in tasks \ tasks' :
           /\ t.p = p /\ t.op = "setLocalOffer"
           /\ pcs[p][t.n].remote = x
           /\ peerConnections[p][x] = t.n]_vars

\* C37's case: x was removed from p's map while p's offer for it was being
\* made; the promise has settled, and p, still in the meeting, has sent x
\* no offer.
C37_RemovedWhileOffering ==
  \E p \in Local, x \in Guests :
    /\ phase[p] = "joined" /\ signalingService[p]
    /\ rosterEvent[p][x] = "left"
    /\ peerConnections[p][x] = 0
    /\ \E n \in DOMAIN pcs[p] : pcs[p][n].remote = x /\ ~IsOpen(pcs[p][n])
    /\ uncaught[p]
    /\ \A y \in Ids : offers[y][p] = NoMsg
    /\ tasks = {}

====
